---- MODULE Spec2Model ----
(***************************************************************************)
(* Model of the CreditAlpha workflow orchestrator (src/services/claude.ts, *)
(* which also holds the Gemini orchestrator) and of its caller             *)
(* handleSendMessage (src/unnamed/part_000).                               *)
(*                                                                         *)
(* JavaScript values are records [t, v]: t is the JS type and v a string   *)
(* payload (the text of a string; the elements of an array joined by ","   *)
(* as Array.prototype.toString does, so the empty array has v = "").       *)
(***************************************************************************)
EXTENDS Integers, Sequences, FiniteSets, TLC

----------------------------------------------------------------------------
(* JavaScript values                                                       *)

Undefined == [t |-> "undefined", v |-> ""]
Null == [t |-> "null", v |-> ""]
Absent == [t |-> "absent", v |-> ""]

Str(s) == [t |-> "string", v |-> s]

Arr(s) == [t |-> "array", v |-> s]

Obj(s) == [t |-> "object", v |-> s]

\* the non-empty rule: blank strings and empty lists count as missing
TruthyNonEmpty(x) ==
  CASE x.t \in {"undefined", "null", "absent"} -> FALSE
    [] x.t = "string" -> x.v \notin {"", " "}
    [] x.t = "array" -> x.v # ""
    [] OTHER -> TRUE

\* ToBoolean: undefined, null and the empty string are falsy; every array and
\* object (the empty array included) and every non-empty string is truthy.
Truthy(x) ==
  CASE x.t \in {"undefined", "null", "absent"} -> FALSE
    [] x.t = "string" -> x.v # ""
    [] OTHER -> TRUE

\* a || b
Or(a, b) == IF Truthy(a) THEN a ELSE b

\* `${x}` in a template literal
TemplateString(x) ==
  CASE x.t = "undefined" -> "undefined"
    [] x.t = "absent" -> "undefined"
    [] x.t = "null" -> "null"
    [] x.t = "object" -> "[object Object]"
    [] OTHER -> x.v

\* p.f on a parsed object: a key the object does not carry reads undefined
Get(p, f) == IF p[f] = Absent THEN Undefined ELSE p[f]

----------------------------------------------------------------------------
(* The document (MemoData) and its term sheet (TermSheetData)              *)

TSFields ==
  {"borrower", "facilityType", "amount", "tenor", "pricing", "baseRate",
   "spread", "pricingGrid", "fees", "amortization", "prepayments",
   "maintenanceCovenants", "negativeCovenants", "collateral",
   "conditionsPrecedent", "reportingRequirements"}

DocFields ==
  {"title", "status", "lastUpdated", "recommendation", "executiveSummary",
   "investmentThesis", "keyTerms", "termSheet", "capitalStructure",
   "companyOverview", "marketAnalysis", "investmentHighlights", "risks",
   "scenarios", "liquidationWaterfall", "downsideAnalysis",
   "businessAnalysis", "financialModel", "financialAnalysis"}

TopFields == DocFields \ {"termSheet"}

INITIAL_MEMO_STATE ==
  [title |-> Str("New Investment Memo"),
   status |-> Str("Draft"),
   lastUpdated |-> Str("2025-01-01"),
   recommendation |-> Str("Pending Analysis"),
   executiveSummary |-> Str(""),
   investmentThesis |-> Arr(""),
   keyTerms |-> Arr(""),
   termSheet |->
     [borrower |-> Str("Target Company"),
      facilityType |-> Str("Senior Term Loan"),
      amount |-> Str("$0"),
      tenor |-> Str("5 Years"),
      pricing |-> Str("TBD"),
      baseRate |-> Str("SOFR"),
      spread |-> Str("5.0%"),
      pricingGrid |-> Arr(""),
      fees |-> Arr(""),
      amortization |-> Arr(""),
      prepayments |-> Arr(""),
      maintenanceCovenants |-> Arr(""),
      negativeCovenants |-> Arr(""),
      collateral |-> Arr(""),
      conditionsPrecedent |-> Arr(""),
      reportingRequirements |-> Arr("")],
   capitalStructure |-> Arr(""),
   companyOverview |-> Str(""),
   marketAnalysis |-> Str(""),
   investmentHighlights |-> Arr(""),
   risks |-> Arr(""),
   scenarios |-> Arr(""),
   liquidationWaterfall |-> Arr(""),
   downsideAnalysis |-> Str(""),
   businessAnalysis |-> Str(""),
   financialModel |-> Obj("INITIAL_MODEL"),
   financialAnalysis |-> Str("")]

\* A document accumulated by an earlier run and edited by the user: every
\* field the phases write already holds a value (status was moved to Review).
AccumulatedMemo ==
  [title |-> Str("Old Title"),
   status |-> Str("Review"),
   lastUpdated |-> Str("2025-01-01"),
   recommendation |-> Str("Old Rec"),
   executiveSummary |-> Str("Old Summary"),
   investmentThesis |-> Arr("old thesis"),
   keyTerms |-> Arr("old term"),
   termSheet |->
     [f \in TSFields |->
        IF INITIAL_MEMO_STATE.termSheet[f].t = "array"
        THEN Arr("old " \o f) ELSE Str("Old " \o f)],
   capitalStructure |-> Arr("old debt"),
   companyOverview |-> Str("Old Overview"),
   marketAnalysis |-> Str("Old Market"),
   investmentHighlights |-> Arr("old highlight"),
   risks |-> Arr("old risk"),
   scenarios |-> Arr("Old Case"),
   liquidationWaterfall |-> Arr("old layer"),
   downsideAnalysis |-> Str("Old Downside"),
   businessAnalysis |-> Str("Old Business"),
   financialModel |-> Obj("OLD_MODEL"),
   financialAnalysis |-> Str("Old Analysis")]

Docs == {INITIAL_MEMO_STATE, AccumulatedMemo}

----------------------------------------------------------------------------
(* Parsed phase outputs (patches).  top[f] is the value the parsed object   *)
(* carries under key f, or Absent; tsKind tells whether its termSheet key  *)
(* is absent, null or an object, and ts[f] is what that object carries.    *)

NoTop == [f \in TopFields |-> Absent]

NoTS == [f \in TSFields |-> Absent]

EmptyPatch == [top |-> NoTop, tsKind |-> "absent", ts |-> NoTS]

SpreadNonEmpty(base, over) ==
  [f \in DOMAIN base |->
     IF over[f] \notin {Absent, Null, Str(""), Arr("")} THEN over[f] ELSE base[f]]

\* { ...base, ...over }: every key over carries wins, whatever its value
Spread(base, over) ==
  [f \in DOMAIN base |-> IF over[f] # Absent THEN over[f] ELSE base[f]]

\* x.termSheet?.f
OptGet(P, f) == IF P.tsKind = "object" THEN Get(P.ts, f) ELSE Undefined

\* { ...termSheet, ...x.termSheet }: spreading undefined or null adds nothing
SpreadTermSheet(termSheet, P) ==
  IF P.tsKind = "object" THEN Spread(termSheet, P.ts) ELSE termSheet

----------------------------------------------------------------------------
(* The six phase merges.  memo is workingMemo, the document before the    *)
(* merge, and the second argument the parsed output of the phase.         *)

\* Phase 1, Data Collection
MergeResearch(memo, researchData) ==
  [memo EXCEPT
     !.companyOverview =
        Or(Get(researchData.top, "companyOverview"), memo.companyOverview),
     !.marketAnalysis =
        Or(Get(researchData.top, "marketAnalysis"), memo.marketAnalysis)]

MergeFinancialAndOverview(memo, financialData) ==
  [memo EXCEPT
     !.companyOverview =
        Or(Get(financialData.top, "companyOverview"), memo.companyOverview),
     !.financialModel =
        Or(Get(financialData.top, "financialModel"), memo.financialModel),
     !.financialAnalysis =
        Or(Get(financialData.top, "financialAnalysis"), memo.financialAnalysis),
     !.scenarios =
        Or(Get(financialData.top, "scenarios"), memo.scenarios),
     !.capitalStructure =
        Or(Get(financialData.top, "capitalStructure"), memo.capitalStructure)]

\* Phase 2, Financial Modeling
MergeFinancial(memo, financialData) ==
  [memo EXCEPT
     !.financialModel =
        Or(Get(financialData.top, "financialModel"), memo.financialModel),
     !.financialAnalysis =
        Or(Get(financialData.top, "financialAnalysis"), memo.financialAnalysis),
     !.scenarios =
        Or(Get(financialData.top, "scenarios"), memo.scenarios),
     !.capitalStructure =
        Or(Get(financialData.top, "capitalStructure"), memo.capitalStructure)]

MergeRiskNoFallback(memo, riskData) ==
  [memo EXCEPT !.risks = Or(Get(riskData.top, "risks"), Arr(""))]

\* Phase 3, Risk Assessment
MergeRisk(memo, riskData) ==
  [memo EXCEPT
     !.risks = Or(Get(riskData.top, "risks"), memo.risks)]

\* Phase 4, Deal Structuring
MergeStruct(memo, structData) ==
  [memo EXCEPT
     !.termSheet = SpreadTermSheet(memo.termSheet, structData),
     !.capitalStructure =
        Or(Get(structData.top, "capitalStructure"), memo.capitalStructure)]

MergeCovenantsSpread(memo, covData) ==
  [memo EXCEPT !.termSheet = SpreadTermSheet(memo.termSheet, covData)]

\* Phase 5, Covenant Design
MergeCovenants(memo, covData) ==
  [memo EXCEPT
     !.termSheet =
        [memo.termSheet EXCEPT
           !.maintenanceCovenants =
              Or(OptGet(covData, "maintenanceCovenants"),
                 memo.termSheet.maintenanceCovenants),
           !.negativeCovenants =
              Or(OptGet(covData, "negativeCovenants"),
                 memo.termSheet.negativeCovenants),
           !.conditionsPrecedent =
              Or(OptGet(covData, "conditionsPrecedent"),
                 memo.termSheet.conditionsPrecedent)]]

FallbackTitleBlank(memo) == Str("")

\* The title the Writing merge falls back to: the borrower is read from the
\* term sheet of the document as it is before the merge.
FallbackTitle(memo) ==
  Str("Investment Memo: " \o TemplateString(memo.termSheet.borrower))

\* Phase 6, Documentation & Assembly
MergeWriter(memo, writerData) ==
  [memo EXCEPT
     !.title = Or(Get(writerData.top, "title"), FallbackTitle(memo)),
     !.recommendation =
        Or(Get(writerData.top, "recommendation"), memo.recommendation),
     !.executiveSummary =
        Or(Get(writerData.top, "executiveSummary"), memo.executiveSummary),
     !.investmentThesis =
        Or(Get(writerData.top, "investmentThesis"), memo.investmentThesis),
     !.investmentHighlights =
        Or(Get(writerData.top, "investmentHighlights"), memo.investmentHighlights),
     !.businessAnalysis =
        Or(Get(writerData.top, "businessAnalysis"), memo.businessAnalysis),
     !.downsideAnalysis =
        Or(Get(writerData.top, "downsideAnalysis"), memo.downsideAnalysis),
     !.termSheet = SpreadTermSheet(memo.termSheet, writerData),
     !.status = Str("Draft")]

Phases == 1..6

Merge(k, memo, P) ==
  CASE k = 1 -> MergeResearch(memo, P)
    [] k = 2 -> MergeFinancial(memo, P)
    [] k = 3 -> MergeRisk(memo, P)
    [] k = 4 -> MergeStruct(memo, P)
    [] k = 5 -> MergeCovenants(memo, P)
    [] k = 6 -> MergeWriter(memo, P)

----------------------------------------------------------------------------
(* The merges of runGeminiWorkflow, read from its own code.                *)

GeminiMergeWithoutCapitalStructure(k, memo, P) ==
  CASE k = 1 ->
         [memo EXCEPT
            !.companyOverview = Or(Get(P.top, "companyOverview"), memo.companyOverview),
            !.marketAnalysis = Or(Get(P.top, "marketAnalysis"), memo.marketAnalysis)]
    [] k = 2 ->
         [memo EXCEPT
            !.financialModel = Or(Get(P.top, "financialModel"), memo.financialModel),
            !.financialAnalysis =
               Or(Get(P.top, "financialAnalysis"), memo.financialAnalysis),
            !.scenarios = Or(Get(P.top, "scenarios"), memo.scenarios)]
    [] k = 3 -> [memo EXCEPT !.risks = Or(Get(P.top, "risks"), memo.risks)]
    [] k = 4 ->
         [memo EXCEPT
            !.termSheet = SpreadTermSheet(memo.termSheet, P),
            !.capitalStructure =
               Or(Get(P.top, "capitalStructure"), memo.capitalStructure)]
    [] k = 5 ->
         [memo EXCEPT
            !.termSheet =
               [memo.termSheet EXCEPT
                  !.maintenanceCovenants =
                     Or(OptGet(P, "maintenanceCovenants"),
                        memo.termSheet.maintenanceCovenants),
                  !.negativeCovenants =
                     Or(OptGet(P, "negativeCovenants"),
                        memo.termSheet.negativeCovenants),
                  !.conditionsPrecedent =
                     Or(OptGet(P, "conditionsPrecedent"),
                        memo.termSheet.conditionsPrecedent)]]
    [] k = 6 ->
         [memo EXCEPT
            !.title = Or(Get(P.top, "title"), FallbackTitle(memo)),
            !.recommendation = Or(Get(P.top, "recommendation"), memo.recommendation),
            !.executiveSummary =
               Or(Get(P.top, "executiveSummary"), memo.executiveSummary),
            !.investmentThesis =
               Or(Get(P.top, "investmentThesis"), memo.investmentThesis),
            !.investmentHighlights =
               Or(Get(P.top, "investmentHighlights"), memo.investmentHighlights),
            !.businessAnalysis =
               Or(Get(P.top, "businessAnalysis"), memo.businessAnalysis),
            !.downsideAnalysis =
               Or(Get(P.top, "downsideAnalysis"), memo.downsideAnalysis),
            !.termSheet = SpreadTermSheet(memo.termSheet, P),
            !.status = Str("Draft")]

\* the merge of phase k in runGeminiWorkflow
GeminiMerge(k, memo, P) ==
  CASE k = 1 ->
         [memo EXCEPT
            !.companyOverview = Or(Get(P.top, "companyOverview"), memo.companyOverview),
            !.marketAnalysis = Or(Get(P.top, "marketAnalysis"), memo.marketAnalysis)]
    [] k = 2 ->
         [memo EXCEPT
            !.financialModel = Or(Get(P.top, "financialModel"), memo.financialModel),
            !.financialAnalysis =
               Or(Get(P.top, "financialAnalysis"), memo.financialAnalysis),
            !.scenarios = Or(Get(P.top, "scenarios"), memo.scenarios),
            !.capitalStructure =
               Or(Get(P.top, "capitalStructure"), memo.capitalStructure)]
    [] k = 3 -> [memo EXCEPT !.risks = Or(Get(P.top, "risks"), memo.risks)]
    [] k = 4 ->
         [memo EXCEPT
            !.termSheet = SpreadTermSheet(memo.termSheet, P),
            !.capitalStructure =
               Or(Get(P.top, "capitalStructure"), memo.capitalStructure)]
    [] k = 5 ->
         [memo EXCEPT
            !.termSheet =
               [memo.termSheet EXCEPT
                  !.maintenanceCovenants =
                     Or(OptGet(P, "maintenanceCovenants"),
                        memo.termSheet.maintenanceCovenants),
                  !.negativeCovenants =
                     Or(OptGet(P, "negativeCovenants"),
                        memo.termSheet.negativeCovenants),
                  !.conditionsPrecedent =
                     Or(OptGet(P, "conditionsPrecedent"),
                        memo.termSheet.conditionsPrecedent)]]
    [] k = 6 ->
         [memo EXCEPT
            !.title = Or(Get(P.top, "title"), FallbackTitle(memo)),
            !.recommendation = Or(Get(P.top, "recommendation"), memo.recommendation),
            !.executiveSummary =
               Or(Get(P.top, "executiveSummary"), memo.executiveSummary),
            !.investmentThesis =
               Or(Get(P.top, "investmentThesis"), memo.investmentThesis),
            !.investmentHighlights =
               Or(Get(P.top, "investmentHighlights"), memo.investmentHighlights),
            !.businessAnalysis =
               Or(Get(P.top, "businessAnalysis"), memo.businessAnalysis),
            !.downsideAnalysis =
               Or(Get(P.top, "downsideAnalysis"), memo.downsideAnalysis),
            !.termSheet = SpreadTermSheet(memo.termSheet, P),
            !.status = Str("Draft")]

\* the merge of phase k in the orchestrator of the backend
WorkflowMerge(prov, k, memo, P) ==
  IF prov = "claude" THEN Merge(k, memo, P) ELSE GeminiMerge(k, memo, P)

----------------------------------------------------------------------------
(* What a completed event carries as partialData: the named fields of the  *)
(* working document after the merge (the whole document in phase 6).       *)

PartialFieldsWide(k) ==
  CASE k = 1 -> {"companyOverview", "marketAnalysis"}
    [] k = 2 -> {"financialModel", "financialAnalysis", "scenarios", "capitalStructure"}
    [] k = 3 -> {"risks", "scenarios"}
    [] k = 4 -> {"termSheet", "capitalStructure"}
    [] k = 5 -> {"termSheet"}
    [] k = 6 -> DocFields

PartialFieldsNarrow(k) ==
  CASE k = 1 -> {"companyOverview", "marketAnalysis"}
    [] k = 2 -> {"financialModel", "financialAnalysis", "scenarios", "capitalStructure"}
    [] k = 3 -> {"risks"}
    [] k = 4 -> {"termSheet"}
    [] k = 5 -> {"termSheet"}
    [] k = 6 -> DocFields

PartialFields(k) ==
  CASE k = 1 -> {"companyOverview", "marketAnalysis"}
    [] k = 2 -> {"financialModel", "financialAnalysis", "scenarios", "capitalStructure"}
    [] k = 3 -> {"risks"}
    [] k = 4 -> {"termSheet", "capitalStructure"}
    [] k = 5 -> {"termSheet"}
    [] k = 6 -> DocFields

PartialData(k, memo) == [f \in PartialFields(k) |-> memo[f]]

GeminiPartialFieldsWithoutTermSheet(k) ==
  CASE k = 1 -> {"companyOverview", "marketAnalysis"}
    [] k = 2 -> {"financialModel", "financialAnalysis", "scenarios", "capitalStructure"}
    [] k = 3 -> {"risks"}
    [] k = 4 -> {"capitalStructure"}
    [] k = 5 -> {"termSheet"}
    [] k = 6 -> DocFields

\* the keys of the partialData of the completed events of runGeminiWorkflow
GeminiPartialFields(k) ==
  CASE k = 1 -> {"companyOverview", "marketAnalysis"}
    [] k = 2 -> {"financialModel", "financialAnalysis", "scenarios", "capitalStructure"}
    [] k = 3 -> {"risks"}
    [] k = 4 -> {"termSheet", "capitalStructure"}
    [] k = 5 -> {"termSheet"}
    [] k = 6 -> DocFields

GeminiPartialData(k, memo) == [f \in GeminiPartialFields(k) |-> memo[f]]

WorkflowPartialData(prov, k, memo) ==
  IF prov = "claude" THEN PartialData(k, memo) ELSE GeminiPartialData(k, memo)

NoData == [f \in {} |-> Undefined]

\* setMemoData(prev => ({ ...prev, ...step.partialData }))
ApplyPartial(prev, partialData) ==
  [f \in DOMAIN prev |-> IF f \in DOMAIN partialData THEN partialData[f] ELSE prev[f]]

----------------------------------------------------------------------------
(* Events                                                                  *)

AgentSwapped(k) ==
  CASE k = 1 -> "DataCollector"
    [] k = 2 -> "FinancialModeler"
    [] k = 3 -> "StructuringExpert"
    [] k = 4 -> "RiskAnalyst"
    [] k = 5 -> "CovenantDesigner"
    [] k = 6 -> "Writer"

Agent(k) ==
  CASE k = 1 -> "DataCollector"
    [] k = 2 -> "FinancialModeler"
    [] k = 3 -> "RiskAnalyst"
    [] k = 4 -> "StructuringExpert"
    [] k = 5 -> "CovenantDesigner"
    [] k = 6 -> "Writer"

\* the agent of phase k in runGeminiWorkflow
GeminiAgent(k) ==
  CASE k = 1 -> "DataCollector"
    [] k = 2 -> "FinancialModeler"
    [] k = 3 -> "RiskAnalyst"
    [] k = 4 -> "StructuringExpert"
    [] k = 5 -> "CovenantDesigner"
    [] k = 6 -> "Writer"

WorkflowAgent(prov, k) == IF prov = "claude" THEN Agent(k) ELSE GeminiAgent(k)

Providers == {"claude", "gemini"}

ActiveMessage(prov, k) ==
  IF prov = "claude"
  THEN CASE k = 1 -> "Analyzing request and gathering intelligence (PDF Skill Active)..."
         [] k = 2 -> "Engaging Extended Thinking & Excel Skill for model construction..."
         [] k = 3 -> "Deep-dive risk assessment and mitigation strategy..."
         [] k = 4 -> "Structuring optimal credit facility..."
         [] k = 5 -> "Calibrating covenants against model headroom..."
         [] k = 6 -> "Synthesizing final Investment Memorandum (PPTX/DOCX Skills Active)..."
  ELSE CASE k = 1 -> "Searching for filings (10-K/Q) and market data..."
         [] k = 2 -> "Constructing 3-statement model and return scenarios..."
         [] k = 3 -> "Identifying risks and calculating probability/impact..."
         [] k = 4 -> "Structuring facility, pricing, and security package..."
         [] k = 5 -> "Calibrating maintenance and negative covenants..."
         [] k = 6 -> "Synthesizing final Investment Memorandum..."

CompletedMessage(prov, k) ==
  IF prov = "claude"
  THEN CASE k = 1 -> "Entity data and market intelligence analyzed."
         [] k = 2 -> "Financial model built with probability-weighted scenarios."
         [] k = 3 -> "Risk matrix calibrated."
         [] k = 4 -> "Term sheet structured."
         [] k = 5 -> "Covenants designed."
         [] k = 6 -> "Final Investment Memo assembled successfully."
  ELSE CASE k = 1 -> "Entity data and market intelligence gathered."
         [] k = 2 -> "Financial model built with Base/Upside/Downside cases."
         [] k = 3 -> "Risk matrix and mitigants defined."
         [] k = 4 -> "Term sheet core terms and pricing set."
         [] k = 5 -> "Covenants calibrated with appropriate headroom."
         [] k = 6 -> "Final Investment Memo assembled successfully."

createEvent(agent, status, message) ==
  [agent |-> agent, status |-> status, message |-> message]

ActiveEvent(prov, k) ==
  createEvent(WorkflowAgent(prov, k), "active", ActiveMessage(prov, k))

CompletedEvent(prov, k) ==
  createEvent(WorkflowAgent(prov, k), "completed", CompletedMessage(prov, k))

FailedEventOfWriter(prov, errMessage) ==
  createEvent("Writer", "failed",
              IF prov = "claude"
              THEN "Workflow interrupted: " \o errMessage
              ELSE "Workflow interrupted due to error.")

\* the catch block of the two orchestrators
FailedEvent(prov, errMessage) ==
  createEvent("Orchestrator", "failed",
              IF prov = "claude"
              THEN "Workflow interrupted: " \o errMessage
              ELSE "Workflow interrupted due to error.")

----------------------------------------------------------------------------
(* Backend responses, text extraction and parsing.                         *)
(* A response text is [fence, body, patch]: fence is how the text is       *)
(* wrapped ("none", "json" for ```json, "bare" for ```, "lang" for a fence *)
(* with another language tag), body is "" (the empty string), "not json",  *)
(* "null" (the JSON text null) or "object" (a JSON object, whose content   *)
(* is patch).                                                              *)

MkText(fence, body, patch) == [fence |-> fence, body |-> body, patch |-> patch]

BraceText == MkText("none", "object", EmptyPatch)

EmptyText == MkText("none", "", EmptyPatch)

GarbageText == MkText("none", "not json", EmptyPatch)

NullText == MkText("none", "null", EmptyPatch)

Block(type, text) == [type |-> type, text |-> text]

\* an element of the content list that is null and not a block
NullBlock == [type |-> "null", text |-> EmptyText]

\* content.find(b => b.type === 'text'): the index of the first block of type
\* 'text', 0 when there is none, -1 when a null element comes first (reading
\* its type is a TypeError)
RECURSIVE FindText(_, _)
FindText(blocks, i) ==
  IF i > Len(blocks) THEN 0
  ELSE IF blocks[i] = NullBlock THEN -1
  ELSE IF blocks[i].type = "text" THEN i
  ELSE FindText(blocks, i + 1)

\* content is [kind, blocks]: kind is "array" for a list, whose elements are
\* blocks, and "undefined", "null", "string" or "object" for a content that is
\* missing or is not a list

\* extractText throws
extractTextRaises(content) ==
  content.kind = "array" /\ FindText(content.blocks, 1) = -1

extractTextOfLastBlock(content) ==
  IF content.kind # "array" \/ content.blocks = <<>> THEN BraceText
  ELSE LET b == content.blocks[Len(content.blocks)]
       IN IF b.type = "text" THEN b.text ELSE BraceText

extractText(content) ==
  IF content.kind \in {"undefined", "null"} \/ content.kind # "array" THEN BraceText
  ELSE LET i == FindText(content.blocks, 1)
       IN IF i > 0 THEN content.blocks[i].text ELSE BraceText

GeminiTextAsIs(text) == text

\* resp.text || '{}'
GeminiText(text) ==
  IF text.fence = "none" /\ text.body = "" THEN BraceText ELSE text

\* the ```json and ``` prefixes and the closing ``` are removed; a fence with
\* another language tag loses its backticks only, the tag stays in the text
cleanJson(text) ==
  CASE text.fence \in {"json", "bare"} -> [text EXCEPT !.fence = "none"]
    [] text.fence = "lang" -> MkText("none", "not json", EmptyPatch)
    [] OTHER -> text

ParsePhaseOutputLenient(text) ==
  CASE text.body = "null" ->
         [kind |-> "type", message |-> "Cannot read properties of null",
          patch |-> EmptyPatch]
    [] text.fence # "none" \/ text.body \in {"", "not json"} ->
         [kind |-> "ok", message |-> "", patch |-> EmptyPatch]
    [] OTHER -> [kind |-> "ok", message |-> "", patch |-> text.patch]

\* JSON.parse followed by the first property read of the merge: a SyntaxError
\* for text that is not JSON, a TypeError for the value null
ParsePhaseOutput(text) ==
  CASE text.fence # "none" \/ text.body \in {"", "not json"} ->
         [kind |-> "syntax", message |-> "Unexpected token", patch |-> EmptyPatch]
    [] text.body = "null" ->
         [kind |-> "type", message |-> "Cannot read properties of null",
          patch |-> EmptyPatch]
    [] OTHER -> [kind |-> "ok", message |-> "", patch |-> text.patch]

NotAList == [kind |-> "undefined", blocks |-> <<>>]

MkResponse(raises, content, text) ==
  [raises |-> raises, content |-> content, text |-> text]

\* the text a phase hands to JSON.parse
PhaseText(prov, resp) ==
  cleanJson(IF prov = "claude" THEN extractText(resp.content)
            ELSE GeminiText(resp.text))

\* what the orchestrator makes of the settled backend call of a phase
PhaseOutcome(prov, resp) ==
  IF resp.raises
  THEN [kind |-> "raise", message |-> "Connection error.", patch |-> EmptyPatch]
  ELSE ParsePhaseOutput(PhaseText(prov, resp))

\* how the call ended, as recorded in the history: "raise", or what the text
\* handed to JSON.parse is ("", "not json", "null", "object")
OutcomeClass(prov, resp) ==
  IF resp.raises THEN "raise" ELSE PhaseText(prov, resp).body

----------------------------------------------------------------------------
(* cleanJson on strings.  A string is a sequence of pieces: Backticks (the  *)
(* three backticks of a fence), the letters "json", the letters            *)
(* "javascript" (any other letters), " " (a whitespace character) and      *)
(* Payload (a JSON object).                                                *)

Backticks == "[3 backticks]"

Payload == "{\"companyOverview\":\"X\"}"

Pieces == {Backticks, "json", "javascript", " ", Payload}

RECURSIVE trimStart(_)
trimStart(text) ==
  IF text # <<>> /\ Head(text) = " " THEN trimStart(Tail(text)) ELSE text

RECURSIVE trimEnd(_)
trimEnd(text) ==
  IF text # <<>> /\ text[Len(text)] = " "
  THEN trimEnd(SubSeq(text, 1, Len(text) - 1))
  ELSE text

trim(text) == trimEnd(trimStart(text))

startsWith(text, prefix) ==
  Len(text) >= Len(prefix) /\ SubSeq(text, 1, Len(prefix)) = prefix

\* replace(/^<prefix>\s*/, '') on a text that starts with the prefix
RemoveOpening(text, prefix) ==
  trimStart(SubSeq(text, Len(prefix) + 1, Len(text)))

\* .replace(/\s*```$/, '')
RemoveClosing(text) ==
  IF text # <<>> /\ text[Len(text)] = Backticks
  THEN trimEnd(SubSeq(text, 1, Len(text) - 1))
  ELSE text

cleanJsonString(text) ==
  LET cleaned == trim(text)
  IN IF startsWith(cleaned, <<Backticks, "json">>)
     THEN RemoveClosing(RemoveOpening(cleaned, <<Backticks, "json">>))
     ELSE IF startsWith(cleaned, <<Backticks>>)
     THEN RemoveClosing(RemoveOpening(cleaned, <<Backticks>>))
     ELSE cleaned

----------------------------------------------------------------------------
(* Inputs of the runs: for each phase an empty output, an output with every *)
(* key of the phase's schema (src/services/prompts.ts) and an output with   *)
(* empty or unexpected content.                                             *)

MkPatch(top, tsKind, ts) ==
  [top |-> [f \in TopFields |-> IF f \in DOMAIN top THEN top[f] ELSE Absent],
   tsKind |-> tsKind,
   ts |-> [f \in TSFields |-> IF f \in DOMAIN ts THEN ts[f] ELSE Absent]]

NoKeys == [f \in {} |-> Absent]

SchemaPatch(k) ==
  CASE k = 1 -> MkPatch([companyOverview |-> Str("Acme makes anvils"),
                         marketAnalysis |-> Str("Growing market")],
                        "absent", NoKeys)
    [] k = 2 -> MkPatch([financialModel |-> Obj("MODEL"),
                         financialAnalysis |-> Str("Margins expand"),
                         scenarios |-> Arr("Base Case,Upside Case,Downside Case"),
                         capitalStructure |-> Arr("Revolver")],
                        "absent", NoKeys)
    [] k = 3 -> MkPatch([risks |-> Arr("Customer concentration")], "absent", NoKeys)
    [] k = 4 -> MkPatch([capitalStructure |-> Arr("Revolver,Term Loan B")],
                        "object",
                        [borrower |-> Str("Acme Corp"),
                         pricing |-> Str("SOFR + 4.5%"),
                         fees |-> Arr("Origination"),
                         maintenanceCovenants |-> Arr("Draft leverage test")])
    [] k = 5 -> MkPatch(NoKeys, "object",
                        [maintenanceCovenants |-> Arr("Max leverage"),
                         negativeCovenants |-> Arr("Liens"),
                         conditionsPrecedent |-> Arr("Legal opinion")])
    [] k = 6 -> MkPatch([title |-> Str("Acme Corp Credit Memo"),
                         recommendation |-> Str("Approve"),
                         executiveSummary |-> Str("Summary"),
                         investmentThesis |-> Arr("Thesis"),
                         investmentHighlights |-> Arr("Highlight"),
                         businessAnalysis |-> Str("Business"),
                         downsideAnalysis |-> Str("Downside")],
                        "object",
                        [reportingRequirements |-> Arr("Quarterly accounts")])

OddPatch(k) ==
  CASE k = 1 -> MkPatch([companyOverview |-> Str(" "), marketAnalysis |-> Str("")],
                        "absent", NoKeys)
    [] k = 2 -> MkPatch([scenarios |-> Arr(""), financialAnalysis |-> Null],
                        "absent", NoKeys)
    [] k = 3 -> MkPatch([risks |-> Arr("")], "absent", NoKeys)
    [] k = 4 -> MkPatch(NoKeys, "object", [borrower |-> Str(""), fees |-> Null])
    [] k = 5 -> MkPatch([title |-> Str("Covenants")], "object",
                        [borrower |-> Str("Other Co"),
                         maintenanceCovenants |-> Arr("")])
    [] k = 6 -> MkPatch(NoKeys, "object", [borrower |-> Str("NewCo")])

RunPatches(k) == {EmptyPatch, SchemaPatch(k), OddPatch(k)}

RunTexts(k) ==
  {EmptyText, GarbageText, NullText, MkText("lang", "object", SchemaPatch(k))}
    \cup {MkText(fence, "object", P) :
            fence \in {"none", "json", "bare"}, P \in RunPatches(k)}

Thinking == Block("thinking", GarbageText)

ClaudeContents(k) ==
  {NotAList, [kind |-> "array", blocks |-> <<>>], [kind |-> "array", blocks |-> <<Thinking>>]}
    \cup {[kind |-> "array", blocks |-> <<Block("text", t)>>] : t \in RunTexts(k)}
    \cup {[kind |-> "array", blocks |-> <<Thinking, Block("text", t)>>] : t \in RunTexts(k)}

\* the ways the backend call of phase k can settle
Responses(prov, k) ==
  {MkResponse(TRUE, NotAList, EmptyText)}
    \cup IF prov = "claude"
         THEN {MkResponse(FALSE, c, EmptyText) : c \in ClaudeContents(k)}
         ELSE {MkResponse(FALSE, NotAList, t) : t \in RunTexts(k)}

----------------------------------------------------------------------------
(* State                                                                   *)

VARIABLES
  provider,        \* App state: the selected backend
  memoData,        \* App state: the caller's document
  messages,        \* App state: the chat messages, as [role, content]
  isGenerating,    \* App state
  workflowEvents,  \* App state: the event log shown to the user
  callerPc,        \* position of handleSendMessage
  currentMemo,     \* the document the run was started with
  workingMemo,     \* the orchestrator's working document
  phase,           \* the phase the orchestrator is in (0 before the run)
  pc,              \* position of the orchestrator (generator)
  chan,            \* the item yielded and not yet taken by the caller
  error,           \* message of the error caught by the orchestrator
  emitted,         \* history: every event yielded, in order
  calls,           \* history: phases whose backend call was issued, in order
  outcomes,        \* history: how each issued phase call ended
  snapshots,       \* history: the working document at the start and after each merge
  parsed,          \* history: the parsed output of each phase that completed
  confirmation,    \* history: how the confirmation call ended ("" before)
  edits,           \* history: the fields edited in the memo editor during a run
  mPhase, mDoc, mPatch, mResult,  \* a merge applied in isolation
  tFn, tArg, tOut,                \* a function applied in isolation: name, argument, result
  shared,          \* two runs: the objects both runs were given
  passed,          \* two runs, history: these objects as they were passed
  runs,            \* two runs: the state of each generator
  ignored,         \* history: the submits that returned at the guard of handleSubmit
  loan,            \* loan servicing: the Loan held in bookedLoans
  prior,           \* loan servicing, history: the loan the last operation was called on
  lastOp,          \* loan servicing, history: the last operation called
  applied,         \* loan servicing, history: the operations that took effect
  now,             \* event stamping: Date.now()
  stamping,        \* event stamping: the run's provider, runId and position
  stamped          \* event stamping, history: the events createEvent built, in order

runVars ==
  <<provider, memoData, messages, isGenerating, workflowEvents, callerPc,
    currentMemo, workingMemo, phase, pc, chan, error, emitted, calls,
    outcomes, snapshots, parsed, confirmation, edits>>

mergeVars == <<mPhase, mDoc, mPatch, mResult>>

textVars == <<tFn, tArg, tOut>>

\* the variables of the functions applied in isolation
pairVars == <<shared, passed, runs>>

loanVars == <<loan, prior, lastOp, applied>>

clockVars == <<now, stamping, stamped>>

\* the variables no step of a run changes
restVars == <<ignored, loanVars, clockVars>>

isolatedVars == <<mergeVars, textVars, pairVars, restVars>>

vars == <<runVars, isolatedVars>>

----------------------------------------------------------------------------
(* The application and one run: handleSendMessage consuming the generator   *)
(* runClaudeWorkflow / runGeminiWorkflow.  The steps of the generator are   *)
(* its stretches of code between two suspension points (yield, await).     *)

Message(role, content) == [role |-> role, content |-> content]

Welcome == Message("model", "Welcome to CreditAlpha.")

Item(event, hasData, partialData) ==
  [event |-> event, hasData |-> hasData, partialData |-> partialData]

IdleMerge ==
  /\ mPhase = 1
  /\ mDoc = INITIAL_MEMO_STATE
  /\ mPatch = EmptyPatch
  /\ mResult = <<>>

IdleText ==
  /\ tFn = "none"
  /\ tArg = <<>>
  /\ tOut = <<>>

IdlePair ==
  /\ shared = [memo |-> INITIAL_MEMO_STATE, attachments |-> <<>>]
  /\ passed = shared
  /\ runs = <<>>

IdleLoan ==
  /\ loan = <<>>
  /\ prior = <<>>
  /\ lastOp = "none"
  /\ applied = {}

IdleClock ==
  /\ now = 0
  /\ stamping = <<>>
  /\ stamped = <<>>

IdleRest ==
  /\ ignored = 0
  /\ IdleLoan
  /\ IdleClock

Init ==
  /\ provider \in Providers
  /\ memoData \in Docs
  /\ messages = <<Welcome>>
  /\ isGenerating = FALSE
  /\ workflowEvents = <<>>
  /\ callerPc = "idle"
  /\ currentMemo = INITIAL_MEMO_STATE
  /\ workingMemo = INITIAL_MEMO_STATE
  /\ phase = 0
  /\ pc = "idle"
  /\ chan = <<>>
  /\ error = ""
  /\ emitted = <<>>
  /\ calls = <<>>
  /\ outcomes = <<>>
  /\ snapshots = <<>>
  /\ parsed = <<>>
  /\ confirmation = ""
  /\ edits = <<>>
  /\ IdleMerge
  /\ IdleText
  /\ IdlePair
  /\ IdleRest

\* handleSendMessage up to the creation of the generator
Submit ==
  /\ callerPc = "idle"
  /\ messages' = Append(messages, Message("user", "Analyze Acme Corp"))
  /\ isGenerating' = TRUE
  /\ workflowEvents' = <<>>
  /\ currentMemo' = memoData
  /\ phase' = 1
  /\ pc' = "start"
  /\ callerPc' = "loop"
  /\ UNCHANGED <<provider, memoData, workingMemo, chan, error, emitted, calls,
                 outcomes, snapshots,
                 parsed, confirmation, edits, isolatedVars>>

\* the generator runs to the yield of the active event of the phase; at its
\* start it copies the document it was given
StartPhase ==
  /\ pc = "start"
  /\ LET item == Item(ActiveEvent(provider, phase), FALSE, NoData)
     IN /\ chan' = <<item>>
        /\ emitted' = Append(emitted, item)
  /\ IF phase = 1
     THEN workingMemo' = currentMemo /\ snapshots' = <<currentMemo>>
     ELSE UNCHANGED <<workingMemo, snapshots>>
  /\ pc' = "yieldedActive"
  /\ UNCHANGED <<provider, memoData, messages, isGenerating, workflowEvents,
                 callerPc, currentMemo, phase, error, calls, outcomes,
                 parsed, confirmation, edits, isolatedVars>>

\* the body of the for await loop, and the next() that resumes the generator
Consume ==
  /\ callerPc = "loop"
  /\ chan # <<>>
  /\ LET step == chan[1]
     IN /\ workflowEvents' = Append(workflowEvents, step.event)
        /\ memoData' = IF step.hasData
                       THEN ApplyPartial(memoData, step.partialData)
                       ELSE memoData
  /\ chan' = <<>>
  /\ pc' = CASE pc = "yieldedActive" -> "call"
             [] pc = "yieldedCompleted" -> IF phase < 6 THEN "start" ELSE "return"
             [] pc = "yieldedFailed" -> "rethrow"
  /\ phase' = IF pc = "yieldedCompleted" /\ phase < 6 THEN phase + 1 ELSE phase
  /\ UNCHANGED <<provider, messages, isGenerating, callerPc, currentMemo,
                 workingMemo, error, emitted, calls, outcomes, snapshots,
                 parsed, confirmation, edits, isolatedVars>>

IssueCallEagerly ==
  /\ \/ pc = "call"
     \/ pc = "yieldedActive" /\ (IF calls = <<>> THEN TRUE ELSE calls[Len(calls)] # phase)
  /\ calls' = Append(calls, phase)
  /\ pc' = IF pc = "call" THEN "awaiting" ELSE pc
  /\ UNCHANGED <<provider, memoData, messages, isGenerating, workflowEvents,
                 callerPc, currentMemo, workingMemo, phase, chan, error, emitted,
                 outcomes, snapshots,
                 parsed, confirmation, edits, isolatedVars>>

IssueCallBeforeHandOver ==
  /\ \/ pc = "call"
     \/ pc = "yieldedCompleted" /\ phase < 6 /\ calls[Len(calls)] = phase
  /\ calls' = Append(calls, IF pc = "call" THEN phase ELSE phase + 1)
  /\ pc' = IF pc = "call" THEN "awaiting" ELSE pc
  /\ UNCHANGED <<provider, memoData, messages, isGenerating, workflowEvents,
                 callerPc, currentMemo, workingMemo, phase, chan, error, emitted,
                 outcomes, snapshots,
                 parsed, confirmation, edits, isolatedVars>>

\* the generator builds the request of the phase and awaits the backend
IssueCall ==
  /\ pc = "call"
  /\ calls' = Append(calls, phase)
  /\ pc' = "awaiting"
  /\ UNCHANGED <<provider, memoData, messages, isGenerating, workflowEvents,
                 callerPc, currentMemo, workingMemo, phase, chan, error, emitted,
                 outcomes, snapshots,
                 parsed, confirmation, edits, isolatedVars>>

\* the call returned a structured patch: merge, yield completed
PhaseCompletes ==
  /\ pc = "awaiting"
  /\ \E resp \in Responses(provider, phase) :
     LET out == PhaseOutcome(provider, resp)
         merged == WorkflowMerge(provider, phase, workingMemo, out.patch)
         item == Item(CompletedEvent(provider, phase), TRUE,
                      WorkflowPartialData(provider, phase, merged))
     IN /\ out.kind = "ok"
        /\ workingMemo' = merged
        /\ snapshots' = Append(snapshots, merged)
        /\ parsed' = Append(parsed, out.patch)
        /\ outcomes' = Append(outcomes, OutcomeClass(provider, resp))
        /\ chan' = <<item>>
        /\ emitted' = Append(emitted, item)
  /\ pc' = "yieldedCompleted"
  /\ UNCHANGED <<provider, memoData, messages, isGenerating, workflowEvents,
                 callerPc, currentMemo, phase, error, calls,
                 confirmation, edits, isolatedVars>>

PhaseFailsRetriedOnce ==
  /\ pc = "awaiting"
  /\ \E resp \in Responses(provider, phase) :
     LET out == PhaseOutcome(provider, resp)
         item == Item(FailedEvent(provider, out.message), FALSE, NoData)
     IN /\ out.kind # "ok"
        /\ outcomes' = Append(outcomes, OutcomeClass(provider, resp))
        /\ IF Len(outcomes) < phase
           THEN pc' = "call" /\ UNCHANGED <<error, chan, emitted>>
           ELSE /\ error' = out.message
                /\ chan' = <<item>>
                /\ emitted' = Append(emitted, item)
                /\ pc' = "yieldedFailed"
  /\ UNCHANGED <<provider, memoData, messages, isGenerating, workflowEvents,
                 callerPc, currentMemo, workingMemo, phase, calls, snapshots,
                 parsed, confirmation, edits, isolatedVars>>

\* the call raised, or its text did not parse, or parsed to null: the catch
\* block yields the failed event
PhaseFails ==
  /\ pc = "awaiting"
  /\ \E resp \in Responses(provider, phase) :
     LET out == PhaseOutcome(provider, resp)
         item == Item(FailedEvent(provider, out.message), FALSE, NoData)
     IN /\ out.kind # "ok"
        /\ error' = out.message
        /\ outcomes' = Append(outcomes, OutcomeClass(provider, resp))
        /\ chan' = <<item>>
        /\ emitted' = Append(emitted, item)
  /\ pc' = "yieldedFailed"
  /\ UNCHANGED <<provider, memoData, messages, isGenerating, workflowEvents,
                 callerPc, currentMemo, workingMemo, phase, calls, snapshots,
                 parsed, confirmation, edits, isolatedVars>>

\* resumed after the failed event was taken: throw error
Rethrow ==
  /\ pc = "rethrow"
  /\ pc' = "threw"
  /\ UNCHANGED <<provider, memoData, messages, isGenerating, workflowEvents,
                 callerPc, currentMemo, workingMemo, phase, chan, error, emitted,
                 calls, outcomes, snapshots,
                 parsed, confirmation, edits, isolatedVars>>

\* resumed after the Writer's completed event was taken: the generator ends
\* and the loop of the caller exits
Return ==
  /\ pc = "return"
  /\ pc' = "returned"
  /\ callerPc' = "confirm"
  /\ UNCHANGED <<provider, memoData, messages, isGenerating, workflowEvents,
                 currentMemo, workingMemo, phase, chan, error, emitted, calls,
                 outcomes, snapshots,
                 parsed, confirmation, edits, isolatedVars>>

CriticalError(prov) ==
  "I encountered a critical error in the " \o prov
    \o " agent workflow. Please check the console for details."

FallbackConfirmation ==
  "Analysis complete. The memorandum has been updated with the latest data from all agents."

CatchWorkflowErrorNoFinally ==
  /\ callerPc = "loop"
  /\ pc = "threw"
  /\ messages' = Append(messages, Message("model", CriticalError(provider)))
  /\ isGenerating' = isGenerating
  /\ callerPc' = "finished"
  /\ UNCHANGED <<provider, memoData, workflowEvents, currentMemo, workingMemo,
                 phase, pc, chan, error, emitted, calls, outcomes, snapshots,
                 parsed, confirmation, edits, isolatedVars>>

CatchWorkflowErrorThenConfirm ==
  /\ callerPc = "loop"
  /\ pc = "threw"
  /\ messages' = Append(messages, Message("model", CriticalError(provider)))
  /\ isGenerating' = isGenerating
  /\ callerPc' = "confirm"
  /\ UNCHANGED <<provider, memoData, workflowEvents, currentMemo, workingMemo,
                 phase, pc, chan, error, emitted, calls, outcomes, snapshots,
                 parsed, confirmation, edits, isolatedVars>>

\* catch and finally of handleSendMessage, for an error of the workflow
CatchWorkflowError ==
  /\ callerPc = "loop"
  /\ pc = "threw"
  /\ messages' = Append(messages, Message("model", CriticalError(provider)))
  /\ isGenerating' = FALSE
  /\ callerPc' = "finished"
  /\ UNCHANGED <<provider, memoData, workflowEvents, currentMemo, workingMemo,
                 phase, pc, chan, error, emitted, calls, outcomes, snapshots,
                 parsed, confirmation, edits, isolatedVars>>

\* the confirmation call is issued (call number 7)
ConfirmCall ==
  /\ callerPc = "confirm"
  /\ calls' = Append(calls, 7)
  /\ callerPc' = "awaitConfirm"
  /\ UNCHANGED <<provider, memoData, messages, isGenerating, workflowEvents,
                 currentMemo, workingMemo, phase, pc, chan, error, emitted,
                 outcomes, snapshots,
                 parsed, confirmation, edits, isolatedVars>>

\* a confirmation text as the string put in the chat
TextString(text) ==
  CASE text.body = "" -> ""
    [] text.body = "object" -> "{}"
    [] OTHER -> "The six agents updated the memo."

ConfirmResponses(prov) ==
  {MkResponse(TRUE, NotAList, EmptyText)}
    \cup IF prov = "claude"
         THEN {MkResponse(FALSE, c, EmptyText) :
                 c \in {[kind |-> "array", blocks |-> <<>>],
                        [kind |-> "array", blocks |-> <<Block("text", EmptyText)>>],
                        [kind |-> "array", blocks |-> <<Block("text", GarbageText)>>]}}
         ELSE {MkResponse(FALSE, NotAList, t) : t \in {EmptyText, GarbageText}}

\* streamClaudeChatResponse / streamChatResponse settle; the reply is appended
ConfirmSettles ==
  /\ callerPc = "awaitConfirm"
  /\ \E resp \in ConfirmResponses(provider) :
     LET responseText ==
           TextString(IF provider = "claude" THEN extractText(resp.content)
                      ELSE resp.text)
         content ==
           IF resp.raises THEN CriticalError(provider)
           ELSE IF responseText # "" THEN responseText
           ELSE FallbackConfirmation
     IN /\ messages' = Append(messages, Message("model", content))
        /\ confirmation' = IF resp.raises THEN "raise"
                           ELSE IF responseText = "" THEN "empty"
                           ELSE "text"
  /\ isGenerating' = FALSE
  /\ callerPc' = "finished"
  /\ UNCHANGED <<provider, memoData, workflowEvents, currentMemo, workingMemo,
                 phase, pc, chan, error, emitted, calls, outcomes, snapshots,
                 parsed, edits, isolatedVars>>

Next ==
  \/ Submit
  \/ StartPhase
  \/ Consume
  \/ IssueCall
  \/ PhaseCompletes
  \/ PhaseFails
  \/ Rethrow
  \/ Return
  \/ CatchWorkflowError
  \/ ConfirmCall
  \/ ConfirmSettles

Spec == Init /\ [][Next]_vars

----------------------------------------------------------------------------
(* Properties of a run                                                     *)

\* <<agent, status>> of each emitted event
Kinds(items) == [i \in 1..Len(items) |-> <<items[i].event.agent, items[i].event.status>>]

SuccessSequence ==
  << <<"DataCollector", "active">>, <<"DataCollector", "completed">>,
     <<"FinancialModeler", "active">>, <<"FinancialModeler", "completed">>,
     <<"RiskAnalyst", "active">>, <<"RiskAnalyst", "completed">>,
     <<"StructuringExpert", "active">>, <<"StructuringExpert", "completed">>,
     <<"CovenantDesigner", "active">>, <<"CovenantDesigner", "completed">>,
     <<"Writer", "active">>, <<"Writer", "completed">> >>

FailedKind == <<"Orchestrator", "failed">>

\* the events of a run whose phase k failed: those of phases 1..k-1, the
\* active event of phase k, then the failed event
FailureSequence(k) == Append(SubSeq(SuccessSequence, 1, 2 * k - 1), FailedKind)

AllParsed == \A i \in 1..Len(outcomes) : outcomes[i] = "object"

FailedAt(k, classes) == Len(outcomes) = k /\ outcomes[k] \in classes

\* the input document with the partialData of the first n items applied
RECURSIVE Observable(_, _, _)
Observable(doc, items, n) ==
  IF n = 0 THEN doc
  ELSE LET before == Observable(doc, items, n - 1)
       IN IF items[n].hasData THEN ApplyPartial(before, items[n].partialData)
          ELSE before

\* C1: while every backend call so far returned a structured patch, the
\* events emitted are a prefix of active(P1), completed(P1), ..., active(P6),
\* completed(P6); once all six calls returned they are exactly these 12
\* events (none failed, none pending), and the generator yields nothing more.
C1_SuccessSequence ==
  AllParsed =>
    /\ Len(emitted) <= 12
    /\ Kinds(emitted) = SubSeq(SuccessSequence, 1, Len(emitted))
    /\ Len(outcomes) = 6 =>
         /\ Kinds(emitted) = SuccessSequence
         /\ pc \in {"yieldedCompleted", "return", "returned"}

C1_Witness ==
  /\ pc = "returned"
  /\ Len(outcomes) = 6
  /\ AllParsed
  /\ Len(workflowEvents) = 12

\* C2: when the backend call of phase k raised, the calls issued are those of
\* phases 1..k and no other, the events are those of phases 1..k-1, active(Pk)
\* and one failed event, and the input document with the partialData of all
\* completed events applied is the working document after the merge of phase
\* k-1 (the input document for k = 1); the caller's document is that one.
C2_RaiseShortCircuits ==
  \A k \in Phases :
    FailedAt(k, {"raise"}) =>
      /\ calls = [i \in 1..k |-> i]
      /\ Kinds(emitted) = FailureSequence(k)
      /\ Len(snapshots) = k
      /\ Observable(currentMemo, emitted, Len(emitted)) = snapshots[k]
      /\ workingMemo = snapshots[k]
      /\ callerPc = "finished" => memoData = snapshots[k]

C2_Witness ==
  /\ FailedAt(5, {"raise"})
  /\ callerPc = "finished"
  /\ snapshots[5] # currentMemo

\* C3: a failed event is tagged Orchestrator, at most one is emitted and it is
\* the last event; a failed phase (raise, parse error) has emitted it; the
\* error is thrown to the caller only after the caller took that event.
C3_FailedEventThenRethrow ==
  /\ \A i \in 1..Len(emitted) :
       emitted[i].event.status = "failed" =>
         /\ emitted[i].event.agent = "Orchestrator"
         /\ i = Len(emitted)
  /\ (outcomes # <<>> /\ outcomes[Len(outcomes)] # "object") =>
       /\ emitted[Len(emitted)].event.status = "failed"
       /\ emitted[Len(emitted)].event.agent = "Orchestrator"
  /\ pc \in {"rethrow", "threw"} =>
       /\ chan = <<>>
       /\ workflowEvents = [i \in 1..Len(emitted) |-> emitted[i].event]
       /\ workflowEvents[Len(workflowEvents)].status = "failed"
  /\ pc = "yieldedFailed" => callerPc = "loop" /\ chan = <<emitted[Len(emitted)]>>

C3_Witness ==
  /\ pc = "threw"
  /\ callerPc = "finished"
  /\ workflowEvents[Len(workflowEvents)].agent = "Orchestrator"
  /\ outcomes[Len(outcomes)] = "not json"

\* C4: when the text of phase k is not a structured patch (it is not JSON,
\* such as "not json" or the empty string, or it is the JSON value null), no
\* completed event of phase k is emitted, one failed event tagged Orchestrator
\* is, no later call is issued and the working document is as it was before
\* phase k (the input document for k = 1).
C4_MalformedOutputFails ==
  \A k \in Phases :
    FailedAt(k, {"", "not json", "null"}) =>
      /\ Kinds(emitted) = FailureSequence(k)
      /\ calls = [i \in 1..k |-> i]
      /\ Len(snapshots) = k
      /\ workingMemo = snapshots[k]
      /\ k = 1 => workingMemo = currentMemo
      /\ pc \in {"yieldedFailed", "rethrow", "threw"}

C4_Witness ==
  /\ FailedAt(1, {"not json"})
  /\ pc = "threw"
  /\ workingMemo = currentMemo
  /\ memoData = currentMemo

----------------------------------------------------------------------------
(* A phase merge applied in isolation, once and then a second time with    *)
(* the same parsed output, for inputs drawn from bounded sets: the         *)
(* documents of Docs and the parsed outputs that carry at most             *)
(* MaxPatchFields keys.                                                    *)

MaxPatchFields == 1

PatchTopFields ==
  {"title", "status", "recommendation", "executiveSummary", "investmentThesis",
   "keyTerms", "capitalStructure", "companyOverview", "marketAnalysis",
   "investmentHighlights", "risks", "scenarios", "downsideAnalysis",
   "businessAnalysis", "financialModel", "financialAnalysis"}

PatchTSFields ==
  {"borrower", "pricing", "fees", "maintenanceCovenants", "negativeCovenants",
   "conditionsPrecedent", "reportingRequirements"}

\* the JSON values a key is given: by the type of the field, null, the empty
\* and a whitespace-only string, the empty list, and a proper value
PatchValues(sample) ==
  CASE sample.t = "string" -> {Null, Str(""), Str(" "), Str("X")}
    [] sample.t = "array" -> {Null, Arr(""), Arr("x")}
    [] OTHER -> {Null, Obj("M")}

Grow(p) ==
  UNION {{[p EXCEPT !.top[f] = val] :
            val \in PatchValues(INITIAL_MEMO_STATE[f])} :
         f \in PatchTopFields}
    \cup UNION {{[p EXCEPT !.tsKind = "object", !.ts[f] = val] :
                   val \in PatchValues(INITIAL_MEMO_STATE.termSheet[f])} :
                f \in PatchTSFields}
    \cup {[p EXCEPT !.tsKind = "null", !.ts = NoTS],
          [p EXCEPT !.tsKind = "object"]}

RECURSIVE PatchesUpTo(_)
PatchesUpTo(n) ==
  IF n = 0 THEN {EmptyPatch}
  ELSE LET smaller == PatchesUpTo(n - 1)
       IN smaller \cup UNION {Grow(p) : p \in smaller}

IdleRun ==
  /\ provider = "gemini"
  /\ memoData = INITIAL_MEMO_STATE
  /\ messages = <<Welcome>>
  /\ isGenerating = FALSE
  /\ workflowEvents = <<>>
  /\ callerPc = "idle"
  /\ currentMemo = INITIAL_MEMO_STATE
  /\ workingMemo = INITIAL_MEMO_STATE
  /\ phase = 0
  /\ pc = "idle"
  /\ chan = <<>>
  /\ error = ""
  /\ emitted = <<>>
  /\ calls = <<>>
  /\ outcomes = <<>>
  /\ snapshots = <<>>
  /\ parsed = <<>>
  /\ confirmation = ""
  /\ edits = <<>>

MergeInit ==
  /\ IdleRun
  /\ IdleRest
  /\ IdleText
  /\ IdlePair
  /\ mPhase \in Phases
  /\ mDoc \in Docs
  /\ mPatch \in PatchesUpTo(MaxPatchFields)
  /\ mResult = <<>>

\* workingMemo = merge of phase mPhase (workingMemo, parsed output)
MergeOnce ==
  /\ mResult = <<>>
  /\ mResult' = <<Merge(mPhase, mDoc, mPatch)>>
  /\ UNCHANGED <<runVars, restVars, mPhase, mDoc, mPatch, textVars, pairVars>>

\* the same merge applied to its own result
MergeAgain ==
  /\ Len(mResult) = 1
  /\ mResult' = Append(mResult, Merge(mPhase, mResult[1], mPatch))
  /\ UNCHANGED <<runVars, restVars, mPhase, mDoc, mPatch, textVars, pairVars>>

MergeNext == MergeOnce \/ MergeAgain

MergeSpec == MergeInit /\ [][MergeNext]_vars

----------------------------------------------------------------------------
(* Properties of the merges                                                *)

Merged == mResult # <<>>

\* the top-level fields the merge of phase k assigns from the parsed output
\* with a fallback to the document's own value
FallbackFields(k) ==
  CASE k = 1 -> {"companyOverview", "marketAnalysis"}
    [] k = 2 -> {"financialModel", "financialAnalysis", "scenarios", "capitalStructure"}
    [] k = 3 -> {"risks"}
    [] k = 4 -> {"capitalStructure"}
    [] k = 5 -> {}
    [] k = 6 -> {"recommendation", "executiveSummary", "investmentThesis",
                 "investmentHighlights", "businessAnalysis", "downsideAnalysis"}

\* present and non-empty: a non-blank string, a list of length > 0, an object
NonEmptyValue(x) ==
  \/ x.t = "string" /\ x.v \notin {"", " "}
  \/ x.t = "array" /\ x.v # ""
  \/ x.t = "object"

\* present, not null and not the empty string
JsTruthyValue(x) ==
  \/ x.t = "string" /\ x.v # ""
  \/ x.t \in {"array", "object"}

C7_Idempotent ==
  Len(mResult) = 2 => mResult[2] = mResult[1]

CovenantFields == {"maintenanceCovenants", "negativeCovenants", "conditionsPrecedent"}

\* C9: the Covenant Design merge leaves every top-level field other than
\* termSheet and every term-sheet field other than maintenanceCovenants,
\* negativeCovenants and conditionsPrecedent as it was, whatever the output
\* holds.
C9_CovenantFrame ==
  (Merged /\ mPhase = 5) =>
    /\ \A f \in TopFields : mResult[1][f] = mDoc[f]
    /\ \A f \in TSFields \ CovenantFields :
         mResult[1].termSheet[f] = mDoc.termSheet[f]

C9_Witness ==
  /\ Merged
  /\ mPhase = 5
  /\ mPatch.tsKind = "object"
  /\ mPatch.ts["borrower"] = Str("X")
  /\ mResult[1].termSheet.borrower = mDoc.termSheet.borrower
  /\ mDoc.termSheet.borrower # Str("X")

\* the fields a merge changed: top-level fields as <<"doc", f>>, term-sheet
\* fields as <<"termSheet", f>>
Changed(before, after) ==
  {<<"doc", f>> : f \in {g \in TopFields : after[g] # before[g]}}
    \cup {<<"termSheet", f>> :
            f \in {g \in TSFields : after.termSheet[g] # before.termSheet[g]}}

\* the fields the merge of phase k can write: those it changes for some
\* document and some parsed output of the bounded sets
Writes(k) ==
  UNION {Changed(D, Merge(k, D, P)) : D \in Docs, P \in PatchesUpTo(MaxPatchFields)}

CanWrite == <<Writes(1), Writes(2), Writes(3), Writes(4), Writes(5), Writes(6)>>

----------------------------------------------------------------------------
(* Further properties of a run                                             *)

\* the backend calls of the phases, in the order they were issued
PhaseCalls == SelectSeq(calls, LAMBDA c : c \in Phases)

\* the backend calls issued and not yet settled
InFlight ==
  (Len(PhaseCalls) - Len(outcomes)) + (IF callerPc = "awaitConfirm" THEN 1 ELSE 0)

\* C11: at most one backend call is in flight, and when the call of phase
\* N+1 has been issued the call of phase N was the one issued before it, its
\* response was extracted and parsed to a structured patch, the patch was
\* merged into the working document, and the caller has taken the completed
\* event of phase N.
C11_OneCallAtATime ==
  /\ InFlight \in {0, 1}
  /\ pc = "awaiting" <=> Len(PhaseCalls) - Len(outcomes) = 1
  /\ \A i \in 1..Len(calls) :
       (calls[i] \in Phases /\ calls[i] > 1) =>
         LET N == calls[i] - 1
         IN /\ calls[i - 1] = N
            /\ Len(outcomes) >= N
            /\ outcomes[N] = "object"
            /\ Len(snapshots) >= N + 1
            /\ Len(workflowEvents) >= 2 * N
            /\ workflowEvents[2 * N] = CompletedEvent(provider, N)

C11_Witness ==
  /\ pc = "awaiting"
  /\ phase = 6
  /\ calls = <<1, 2, 3, 4, 5, 6>>
  /\ Len(outcomes) = 5

\* the number of active events emitted
ActiveCount == Cardinality({i \in 1..Len(emitted) : emitted[i].event.status = "active"})

\* C12: the backend calls of the phases are those of phases 1, 2, ... in
\* order, each issued once and at most six in all; their number is the number
\* of active events emitted (one less while the last started phase has not
\* issued its call yet); after a call that raised or whose output did not
\* parse no backend call is issued any more.
C12_OneCallPerPhase ==
  /\ PhaseCalls = [i \in 1..Len(PhaseCalls) |-> i]
  /\ Len(PhaseCalls) <= 6
  /\ Len(PhaseCalls) =
       ActiveCount - (IF pc \in {"yieldedActive", "call"} THEN 1 ELSE 0)
  /\ callerPc = "finished" => Len(PhaseCalls) = ActiveCount
  /\ (outcomes # <<>> /\ outcomes[Len(outcomes)] # "object") =>
       /\ calls = [i \in 1..Len(outcomes) |-> i]
       /\ pc \in {"yieldedFailed", "rethrow", "threw"}

C12_Witness ==
  /\ callerPc = "finished"
  /\ Len(outcomes) = 3
  /\ outcomes[3] = "raise"
  /\ calls = <<1, 2, 3>>
  /\ ActiveCount = 3

\* the last chat message
LastMessage == messages[Len(messages)]

\* C13: when all six phases completed and the confirmation call raised, the
\* message appended by the caller is the generic fallback confirmation and
\* not the critical-error message, and the caller's document is the completed
\* working document.
C13_ConfirmFailureDegrades ==
  (callerPc = "finished" /\ confirmation = "raise") =>
    /\ Kinds(emitted) = SuccessSequence
    /\ LastMessage = Message("model", FallbackConfirmation)
    /\ LastMessage.content # CriticalError(provider)
    /\ memoData = workingMemo

ConfirmCalls == SelectSeq(calls, LAMBDA c : c = 7)

HasFailed == \E i \in 1..Len(emitted) : emitted[i].event.status = "failed"

\* C14: the confirmation call is issued at most once, and once in a run whose
\* six phases completed; when it is issued the six phase calls precede it,
\* the caller has taken the Writer's completed event and applied its
\* partialData, and no failed event was emitted; from the moment it is issued
\* to the end of the run the caller's document is the document it was after
\* the Writer's completed event.
C14_ConfirmOnceAfterWriter ==
  /\ Len(ConfirmCalls) <= 1
  /\ HasFailed => ConfirmCalls = <<>>
  /\ (callerPc = "finished" /\ ~HasFailed) => Len(ConfirmCalls) = 1
  /\ confirmation # "" => Len(ConfirmCalls) = 1
  /\ ConfirmCalls # <<>> =>
       /\ calls = <<1, 2, 3, 4, 5, 6, 7>>
       /\ Len(workflowEvents) = 12
       /\ workflowEvents[12] = CompletedEvent(provider, 6)
       /\ pc = "returned"
       /\ memoData = Observable(currentMemo, emitted, 12)
       /\ memoData = snapshots[7]

C14_Witness ==
  /\ callerPc = "finished"
  /\ confirmation = "text"
  /\ calls = <<1, 2, 3, 4, 5, 6, 7>>
  /\ memoData # currentMemo

----------------------------------------------------------------------------
(* extractText and cleanJson applied in isolation, for inputs drawn from   *)
(* bounded sets: the contents that are missing, are not a list, or are a   *)
(* list of at most MaxBlocks elements, and the strings of at most          *)
(* MaxTextLen pieces.                                                      *)

MaxBlocks == 3

MaxTextLen == 5

SeqsUpTo(S, n) == UNION {[1..m -> S] : m \in 0..n}

\* reasoning and tool-use blocks, text blocks, and an element that is null
BlockChoices ==
  {Thinking, Block("tool_use", EmptyText), Block("text", GarbageText),
   Block("text", NullText), Block("text", EmptyText), NullBlock}

ContentInputs ==
  {[kind |-> k, blocks |-> <<>>] : k \in {"undefined", "null", "string", "object"}}
    \cup {[kind |-> "array", blocks |-> b] : b \in SeqsUpTo(BlockChoices, MaxBlocks)}

TextInputs == SeqsUpTo(Pieces, MaxTextLen)

TextInit ==
  /\ IdleRun
  /\ IdleRest
  /\ IdleMerge
  /\ IdlePair
  /\ \/ tFn = "extractText" /\ tArg \in ContentInputs
     \/ tFn = "cleanJson" /\ tArg \in TextInputs
  /\ tOut = <<>>

\* extractText(resp.content): the text returned, or the TypeError thrown
ApplyExtractText ==
  /\ tFn = "extractText"
  /\ tOut = <<>>
  /\ tOut' = <<[raises |-> extractTextRaises(tArg),
                text |-> IF extractTextRaises(tArg) THEN EmptyText
                         ELSE extractText(tArg)]>>
  /\ UNCHANGED <<runVars, restVars, mergeVars, pairVars, tFn, tArg>>

\* cleanJson(text)
ApplyCleanJson ==
  /\ tFn = "cleanJson"
  /\ tOut = <<>>
  /\ tOut' = <<cleanJsonString(tArg)>>
  /\ UNCHANGED <<runVars, restVars, mergeVars, pairVars, tFn, tArg>>

TextNext == ApplyExtractText \/ ApplyCleanJson

TextSpec == TextInit /\ [][TextNext]_vars

\* a list whose elements all are segments (blocks)
IsSegmentList(content) ==
  /\ content.kind = "array"
  /\ \A i \in 1..Len(content.blocks) : content.blocks[i] # NullBlock

TextBlocks(content) ==
  {i \in 1..Len(content.blocks) : content.blocks[i].type = "text"}

\* C15: for a content that is missing or is not a list extractText returns
\* the placeholder '{}'; for a list of segments it returns the text of the
\* segment of type 'text' that has no segment of type 'text' before it,
\* whatever the other segments are, and the placeholder when there is no
\* such segment; in none of these cases it raises.
C15_FirstTextOrPlaceholder ==
  (tFn = "extractText" /\ tOut # <<>>) =>
    /\ tArg.kind # "array" => ~tOut[1].raises /\ tOut[1].text = BraceText
    /\ IsSegmentList(tArg) =>
         /\ ~tOut[1].raises
         /\ TextBlocks(tArg) = {} => tOut[1].text = BraceText
         /\ \A i \in TextBlocks(tArg) :
              (\A j \in TextBlocks(tArg) : i <= j) =>
                tOut[1].text = tArg.blocks[i].text

C15_Witness ==
  /\ tFn = "extractText"
  /\ tOut # <<>>
  /\ tArg.kind = "array"
  /\ Len(tArg.blocks) = 3
  /\ tArg.blocks[1] = Thinking
  /\ tArg.blocks[2] = Block("text", NullText)
  /\ tArg.blocks[3] = Block("text", GarbageText)
  /\ tOut[1] = [raises |-> FALSE, text |-> NullText]

\* the language tags of a fence
Tags == {"json", "javascript"}

\* a trimmed text that opens and closes with three backticks
IsFenced(text) ==
  Len(text) >= 2 /\ text[1] = Backticks /\ text[Len(text)] = Backticks

\* what is between the opening fence, with its language tag if it has one,
\* and the closing fence, without the whitespace around it
Inner(text) ==
  trim(SubSeq(text, IF Len(text) >= 3 /\ text[2] \in Tags THEN 3 ELSE 2,
              Len(text) - 1))

\* C16: cleanJson applied to a text that is a payload wrapped in a fence, with
\* a language tag or none and any whitespace around fence and payload,
\* returns the payload alone; applied to a text that does not open with a
\* fence it returns the text trimmed.
C16_FenceStripped ==
  (tFn = "cleanJson" /\ tOut # <<>>) =>
    LET text == trim(tArg)
    IN /\ (IsFenced(text) /\ Inner(text) = <<Payload>>) => tOut[1] = <<Payload>>
       /\ (text = <<>> \/ text[1] # Backticks) => tOut[1] = text

\* the document fields the phase owns: the keys of the document its merge can
\* write (termSheet when it can write a field of the term sheet)
OwnedKeys(k) ==
  {x[2] : x \in {y \in CanWrite[k] : y[1] = "doc"}}
    \cup (IF \E y \in CanWrite[k] : y[1] = "termSheet" THEN {"termSheet"} ELSE {})

\* the completed events emitted, as <<phase, item>>
CompletedItems ==
  {<<i \div 2, emitted[i]>> :
     i \in {j \in 1..Len(emitted) : emitted[j].event.status = "completed"}}

Other(prov) == IF prov = "claude" THEN "gemini" ELSE "claude"

\* the working document of the orchestrator of backend prov after the merges
\* of phases 1..n, started with doc and given the parsed outputs patches
RECURSIVE WorkingAfter(_, _, _, _)
WorkingAfter(prov, doc, patches, n) ==
  IF n = 0 THEN doc
  ELSE WorkflowMerge(prov, n, WorkingAfter(prov, doc, patches, n - 1), patches[n])

\* an emitted item without the message of its event
Strip(item) ==
  [agent |-> item.event.agent, status |-> item.event.status,
   hasData |-> item.hasData, partialData |-> item.partialData]

\* the i-th item the orchestrator of backend prov emits when it is started
\* with doc, its first Len(patches) calls return the parsed outputs patches
\* and the next call, if it comes to it, fails
ExpectedItem(prov, doc, patches, i) ==
  LET k == (i + 1) \div 2
  IN IF i % 2 = 1
     THEN Strip(Item(ActiveEvent(prov, k), FALSE, NoData))
     ELSE IF k <= Len(patches)
     THEN Strip(Item(CompletedEvent(prov, k), TRUE,
                     WorkflowPartialData(prov, k, WorkingAfter(prov, doc, patches, k))))
     ELSE Strip(Item(FailedEvent(prov, ""), FALSE, NoData))

\* C18: given the same starting document and the same parsed phase outputs
\* (or a failure at the same phase), what the orchestrator of the selected
\* backend has emitted, as (agent, status) and partialData, is what the
\* orchestrator of the other backend emits, and its working document is the
\* working document of the other.
C18_SameAsOtherBackend ==
  emitted # <<>> =>
    \A prov \in {provider, Other(provider)} :
      /\ \A i \in 1..Len(emitted) :
           Strip(emitted[i]) = ExpectedItem(prov, currentMemo, parsed, i)
      /\ workingMemo = WorkingAfter(prov, currentMemo, parsed, Len(parsed))

C18_Witness ==
  /\ provider = "gemini"
  /\ Len(parsed) = 6
  /\ Len(emitted) = 12
  /\ parsed[2] = SchemaPatch(2)
  /\ parsed[4] = OddPatch(4)
  /\ workingMemo = WorkingAfter("claude", currentMemo, parsed, 6)
  /\ workingMemo.capitalStructure # currentMemo.capitalStructure

----------------------------------------------------------------------------
(* Two runs started with the same document object and the same attachments *)
(* and interleaved at their suspension points.  let workingMemo =           *)
(* { ...currentMemo } copies the top-level fields only: until a merge       *)
(* builds a new termSheet object, workingMemo.termSheet is the termSheet    *)
(* object of the document the run was given.                               *)

RunIds == 1..2

Attachment ==
  [name |-> "10-K.pdf", mimeType |-> "application/pdf", data |-> "JVBERi0="]

NewRun(prov) ==
  [provider |-> prov, phase |-> 1, pc |-> "start",
   workingMemo |-> INITIAL_MEMO_STATE, ownTermSheet |-> FALSE,
   emitted |-> <<>>, parsed |-> <<>>]

\* the merges whose object literal has a termSheet key: they build a new
\* termSheet object
BuildsTermSheet(k) == k \in {4, 5, 6}

\* workingMemo of a run, its termSheet read through the reference it holds
Working(run, objects) ==
  IF run.ownTermSheet THEN run.workingMemo
  ELSE [run.workingMemo EXCEPT !.termSheet = objects.memo.termSheet]

SharedAfterMergeInPlace(k, objects, merged, own) ==
  IF k = 4 /\ ~own
  THEN [objects EXCEPT !.memo.termSheet = merged.termSheet]
  ELSE objects

\* the objects the run was given, after a merge of the run: the merges assign
\* the local variable workingMemo and build new objects, they write through
\* no reference
SharedAfterMerge(k, objects, merged, own) == objects

\* the parsed output of phase k in run r
PairPatch(r, k) == IF r = 1 THEN SchemaPatch(k) ELSE OddPatch(k)

PairInit ==
  /\ IdleRun
  /\ IdleRest
  /\ IdleMerge
  /\ IdleText
  /\ shared \in {[memo |-> D, attachments |-> <<Attachment>>] : D \in Docs}
  /\ passed = shared
  /\ runs \in [RunIds -> {NewRun(prov) : prov \in Providers}]

\* first next(): the shallow copy, then the active event of phase 1
PairStart ==
  \E r \in RunIds :
    /\ runs[r].pc = "start"
    /\ runs' = [runs EXCEPT
                  ![r].workingMemo = shared.memo,
                  ![r].ownTermSheet = FALSE,
                  ![r].emitted =
                     <<Item(ActiveEvent(runs[r].provider, 1), FALSE, NoData)>>,
                  ![r].pc = "yieldedActive"]
    /\ UNCHANGED <<runVars, restVars, mergeVars, textVars, shared, passed>>

\* resumed: the request is built from workingMemo and the attachments, which
\* are read, and the backend call is awaited
PairCall ==
  \E r \in RunIds :
    /\ runs[r].pc = "yieldedActive"
    /\ runs' = [runs EXCEPT ![r].pc = "awaiting"]
    /\ UNCHANGED <<runVars, restVars, mergeVars, textVars, shared, passed>>

\* the call returned: merge, then the completed event
PairComplete ==
  \E r \in RunIds :
    LET run == runs[r]
        merged == WorkflowMerge(run.provider, run.phase, Working(run, shared),
                                PairPatch(r, run.phase))
    IN /\ run.pc = "awaiting"
       /\ runs' = [runs EXCEPT
                     ![r].workingMemo = merged,
                     ![r].ownTermSheet = run.ownTermSheet \/ BuildsTermSheet(run.phase),
                     ![r].emitted =
                        Append(run.emitted,
                               Item(CompletedEvent(run.provider, run.phase), TRUE,
                                    WorkflowPartialData(run.provider, run.phase, merged))),
                     ![r].parsed = Append(run.parsed, PairPatch(r, run.phase)),
                     ![r].pc = "yieldedCompleted"]
       /\ shared' = SharedAfterMerge(run.phase, shared, merged, run.ownTermSheet)
       /\ UNCHANGED <<runVars, restVars, mergeVars, textVars, passed>>

\* the call raised: the failed event
PairFail ==
  \E r \in RunIds :
    /\ runs[r].pc = "awaiting"
    /\ runs' = [runs EXCEPT
                  ![r].emitted =
                     Append(runs[r].emitted,
                            Item(FailedEvent(runs[r].provider, "Connection error."),
                                 FALSE, NoData)),
                  ![r].pc = "yieldedFailed"]
    /\ UNCHANGED <<runVars, restVars, mergeVars, textVars, shared, passed>>

\* resumed after a completed event (the active event of the next phase, or
\* the end of the generator) or after the failed event (throw error)
PairResume ==
  \E r \in RunIds :
    LET run == runs[r]
    IN /\ run.pc \in {"yieldedCompleted", "yieldedFailed"}
       /\ runs' =
            IF run.pc = "yieldedFailed" THEN [runs EXCEPT ![r].pc = "threw"]
            ELSE IF run.phase = 6 THEN [runs EXCEPT ![r].pc = "returned"]
            ELSE [runs EXCEPT
                    ![r].phase = run.phase + 1,
                    ![r].emitted =
                       Append(run.emitted,
                              Item(ActiveEvent(run.provider, run.phase + 1),
                                   FALSE, NoData)),
                    ![r].pc = "yieldedActive"]
       /\ UNCHANGED <<runVars, restVars, mergeVars, textVars, shared, passed>>

PairNext == PairStart \/ PairCall \/ PairComplete \/ PairFail \/ PairResume

PairSpec == PairInit /\ [][PairNext]_vars

\* C19: the document and the attachments the runs were given stay as they
\* were passed, and each of two interleaved runs has emitted the events, as
\* (agent, status) and partialData, and holds the working document that its
\* orchestrator produces from the passed document and the run's own parsed
\* outputs alone.
C19_RunsIndependent ==
  /\ shared = passed
  /\ \A r \in DOMAIN runs :
       runs[r].pc # "start" =>
         /\ \A i \in 1..Len(runs[r].emitted) :
              Strip(runs[r].emitted[i])
                = ExpectedItem(runs[r].provider, passed.memo, runs[r].parsed, i)
         /\ Working(runs[r], shared)
              = WorkingAfter(runs[r].provider, passed.memo, runs[r].parsed,
                             Len(runs[r].parsed))

C19_Witness ==
  /\ runs # <<>>
  /\ runs[1].pc = "returned"
  /\ runs[2].pc = "awaiting"
  /\ runs[2].phase = 4
  /\ ~runs[2].ownTermSheet
  /\ Working(runs[1], shared).termSheet # passed.memo.termSheet
  /\ Working(runs[2], shared).termSheet = passed.memo.termSheet

----------------------------------------------------------------------------
(* A run during which the user edits the memo in the editor: MemoCanvas is *)
(* rendered with onUpdate = handleMemoUpdate whether or not a run is in    *)
(* progress, and an EditableBlock calls onUpdate({ ...data, [field]: text }).*)

MaxEdits == 1

\* fields shown as an EditableBlock: one written in phase 1, one in phase 6
EditableFields == {"companyOverview", "executiveSummary"}

EditedText == Str("Edited by the analyst")

\* handleMemoUpdate, called by the editor while handleSendMessage is running
EditMemo ==
  /\ isGenerating
  /\ callerPc # "finished"
  /\ Len(edits) < MaxEdits
  /\ \E field \in EditableFields :
       /\ memoData' = [memoData EXCEPT ![field] = EditedText]
       /\ edits' = Append(edits, field)
  /\ UNCHANGED <<provider, messages, isGenerating, workflowEvents, callerPc,
                 currentMemo, workingMemo, phase, pc, chan, error, emitted,
                 calls, outcomes, snapshots, parsed, confirmation, isolatedVars>>

EditNext == Next \/ EditMemo

EditSpec == Init /\ [][EditNext]_vars

\* C20: while a run is in progress and at its end the caller's document is
\* the document the run was started with, with the partialData of the items
\* the caller has taken applied and nothing else; an edit made meanwhile, if
\* there were one, is still in the document when the run has ended.
C20_OnlyTheRunWrites ==
  /\ callerPc # "idle" =>
       memoData = Observable(currentMemo, emitted, Len(workflowEvents))
  /\ callerPc = "finished" =>
       \A i \in 1..Len(edits) : memoData[edits[i]] = EditedText

----------------------------------------------------------------------------
(* The phase 1 request of either backend, built in isolation for inputs    *)
(* drawn from bounded sets.  A mime type is a sequence of pieces, and the  *)
(* base64 data of an attachment a sequence of chunks of ChunkSize          *)
(* characters each.                                                        *)

MaxAttachments == 2

CLAUDE_SONNET == "claude-sonnet-4-5-20250929"

CLAUDE_OPUS == "claude-opus-4-1-20250805"

ChunkSize == 25

PdfType == <<"application", "/", "pdf">>

\* the types of the files the chat panel accepts (.pdf,.csv,.txt,.md), and an image
MimeTypes == {PdfType, <<"image", "/", "png">>, <<"text", "/", "csv">>}

\* base64 data of 0, 50 and 75 characters
DataChoices == {<<>>, <<"c1", "c2">>, <<"c1", "c2", "c3">>}

AttachmentChoices == [name : {"file"}, mimeType : MimeTypes, data : DataChoices]

\* att.data.substring(0, n), n a multiple of ChunkSize
substring(data, n) ==
  SubSeq(data, 1, IF Len(data) * ChunkSize <= n THEN Len(data) ELSE n \div ChunkSize)

Part(type, mimeType, data, text) ==
  [type |-> type, mimeType |-> mimeType, data |-> data, text |-> text]

\* one piece of textContext: the prompt, or what one attachment appends to it
TextPiece(kind, name, mimeType, excerpt) ==
  [kind |-> kind, name |-> name, mimeType |-> mimeType, excerpt |-> excerpt]

PromptPiece == TextPiece("prompt", "", <<>>, <<>>)

\* the block pushed onto messages[0].content for one attachment, if any
ClaudeBlocks(att) ==
  IF att.mimeType = PdfType
  THEN <<Part("document", PdfType, att.data, <<>>)>>
  ELSE IF startsWith(att.mimeType, <<"image", "/">>)
  THEN <<Part("image", att.mimeType, att.data, <<>>)>>
  ELSE <<>>

\* what textContext += ... appends for one attachment
ClaudeReference(att) ==
  IF att.mimeType = PdfType
  THEN TextPiece("Attached PDF", att.name, <<>>, <<>>)
  ELSE IF startsWith(att.mimeType, <<"image", "/">>)
  THEN TextPiece("Attached Image", att.name, <<>>, <<>>)
  ELSE TextPiece("Attachment", att.name, att.mimeType, substring(att.data, 50))

RECURSIVE ClaudeAttachmentBlocks(_)
ClaudeAttachmentBlocks(attachments) ==
  IF attachments = <<>> THEN <<>>
  ELSE ClaudeBlocks(Head(attachments)) \o ClaudeAttachmentBlocks(Tail(attachments))

ClaudeTextContext(attachments) ==
  <<PromptPiece>> \o [i \in 1..Len(attachments) |-> ClaudeReference(attachments[i])]

\* messages[0].content of generateWithClaude
ClaudeContent(attachments) ==
  Append(ClaudeAttachmentBlocks(attachments),
         Part("text", <<>>, <<>>, ClaudeTextContext(attachments)))

\* default parameter values: = false, = 0, = []
Default(x, d) == IF x = "absent" THEN d ELSE x

generateWithClaudeBothSettings(opts) ==
  LET useThinking == Default(opts.useThinking, "false") = "true"
      temperature == Default(opts.temperature, "0")
      skills == opts.skills
  IN [model |-> opts.model,
      max_tokens |-> IF useThinking THEN 16000 ELSE 8000,
      content |-> ClaudeContent(opts.attachments),
      container |-> IF Len(skills) > 0 THEN skills ELSE <<>>,
      tools |-> IF Len(skills) > 0 THEN <<"code_execution">> ELSE <<>>,
      thinking |-> IF useThinking /\ opts.model = CLAUDE_SONNET
                   THEN "enabled" ELSE "absent",
      temperature |-> temperature]

\* the config generateWithClaude passes to anthropic.messages.create; an
\* option is "absent" when the caller left it out, a key of the config is
\* "absent" (<<>> for container and tools) when it was not set
generateWithClaudeConfig(opts) ==
  LET useThinking == Default(opts.useThinking, "false") = "true"
      temperature == Default(opts.temperature, "0")
      skills == opts.skills
  IN [model |-> opts.model,
      max_tokens |-> IF useThinking THEN 16000 ELSE 8000,
      content |-> ClaudeContent(opts.attachments),
      container |-> IF Len(skills) > 0 THEN skills ELSE <<>>,
      tools |-> IF Len(skills) > 0 THEN <<"code_execution">> ELSE <<>>,
      thinking |-> IF useThinking /\ opts.model = CLAUDE_SONNET
                   THEN "enabled" ELSE "absent",
      temperature |-> IF useThinking /\ opts.model = CLAUDE_SONNET
                      THEN "absent" ELSE temperature]

\* contents.parts of the phase 1 call of runGeminiWorkflow
GeminiParts(attachments) ==
  Append([i \in 1..Len(attachments) |->
            Part("inlineData", attachments[i].mimeType, attachments[i].data, <<>>)],
         Part("text", <<>>, <<>>, <<PromptPiece>>))

ClaudeOptions ==
  [model : {CLAUDE_SONNET, CLAUDE_OPUS},
   attachments : SeqsUpTo(AttachmentChoices, MaxAttachments),
   useThinking : {"absent", "true", "false"},
   temperature : {"absent", "0", "0.2"},
   skills : {<<>>, <<"pdf">>}]

RequestInit ==
  /\ IdleRun
  /\ IdleRest
  /\ IdleMerge
  /\ IdlePair
  /\ \/ tFn = "generateWithClaude" /\ tArg \in ClaudeOptions
     \/ tFn = "runGeminiWorkflow"
          /\ tArg \in SeqsUpTo(AttachmentChoices, MaxAttachments)
  /\ tOut = <<>>

BuildClaudeRequest ==
  /\ tFn = "generateWithClaude"
  /\ tOut = <<>>
  /\ tOut' = <<generateWithClaudeConfig(tArg)>>
  /\ UNCHANGED <<runVars, restVars, mergeVars, pairVars, tFn, tArg>>

BuildGeminiRequest ==
  /\ tFn = "runGeminiWorkflow"
  /\ tOut = <<>>
  /\ tOut' = <<GeminiParts(tArg)>>
  /\ UNCHANGED <<runVars, restVars, mergeVars, pairVars, tFn, tArg>>

RequestNext == BuildClaudeRequest \/ BuildGeminiRequest

RequestSpec == RequestInit /\ [][RequestNext]_vars

\* C21: every request built by generateWithClaude carries either the
\* extended-thinking configuration or a sampling temperature, never both and
\* never neither, whatever useThinking, model and temperature are.
C21_ThinkingXorTemperature ==
  (tFn = "generateWithClaude" /\ tOut # <<>>) =>
    (tOut[1].thinking = "absent") # (tOut[1].temperature = "absent")

C21_Witness ==
  /\ tFn = "generateWithClaude"
  /\ tOut # <<>>
  /\ tArg.useThinking = "true"
  /\ tArg.model = CLAUDE_SONNET
  /\ tArg.temperature = "0.2"
  /\ tOut[1].thinking = "enabled"

IsPdf(att) == att.mimeType = PdfType

IsImage(att) == startsWith(att.mimeType, <<"image", "/">>)

\* what a part of the request is to the backend: Gemini takes documents,
\* images and any other binary as inlineData with their mime type
InputKind(part) ==
  IF part.type # "inlineData" THEN part.type
  ELSE IF IsPdf(part) THEN "document"
  ELSE IF IsImage(part) THEN "image"
  ELSE "binary"

RequestParts == IF tFn = "generateWithClaude" THEN tOut[1].content ELSE tOut[1]

RequestAttachments == IF tFn = "generateWithClaude" THEN tArg.attachments ELSE tArg

\* C22: in the phase 1 request of either backend the PDF and image
\* attachments are sent, in attachment order, as one document input and one
\* image input each; an attachment of another type is not sent as binary
\* but is referred to in the text with an excerpt of at most 50 characters
\* of its data; and the request has one text part, which is its last part.
C22_AttachmentRouting ==
  (tFn \in {"generateWithClaude", "runGeminiWorkflow"} /\ tOut # <<>>) =>
    LET parts == RequestParts
        n == Len(parts)
        binary == SelectSeq(RequestAttachments, LAMBDA a : IsPdf(a) \/ IsImage(a))
        others == SelectSeq(RequestAttachments, LAMBDA a : ~IsPdf(a) /\ ~IsImage(a))
        references == SelectSeq(parts[n].text, LAMBDA p : p.kind = "Attachment")
    IN /\ n = Len(binary) + 1
       /\ \A i \in 1..(n - 1) :
            /\ InputKind(parts[i]) = (IF IsPdf(binary[i]) THEN "document" ELSE "image")
            /\ parts[i].mimeType = binary[i].mimeType
            /\ parts[i].data = binary[i].data
       /\ parts[n].type = "text"
       /\ Len(references) = Len(others)
       /\ \A i \in 1..Len(others) :
            /\ references[i].name = others[i].name
            /\ Len(references[i].excerpt) * ChunkSize <= 50
            /\ references[i].excerpt = substring(others[i].data, 50)

\* the same on the requests generateWithClaude builds
C22_OnClaude == tFn = "generateWithClaude" => C22_AttachmentRouting

----------------------------------------------------------------------------
(* The end-to-end run from the empty initial document                     *)

CompletedCount ==
  Cardinality({i \in 1..Len(emitted) : emitted[i].event.status = "completed"})

\* a run started from the empty initial document whose six outputs parsed
\* and whose caller has finished
EndToEnd ==
  /\ currentMemo = INITIAL_MEMO_STATE
  /\ Len(parsed) = 6
  /\ callerPc = "finished"

\* the scenarios are those of the Financial Modeling output when it carried some
ScenariosAsSupplied ==
  Truthy(Get(parsed[2].top, "scenarios")) =>
    memoData.scenarios = parsed[2].top.scenarios

BorrowerSupplied ==
  IF OptGet(parsed[6], "borrower") # Undefined THEN OptGet(parsed[6], "borrower")
  ELSE IF OptGet(parsed[4], "borrower") # Undefined THEN OptGet(parsed[4], "borrower")
  ELSE INITIAL_MEMO_STATE.termSheet.borrower

Introductions == {"", "Workflow interrupted: ", "Workflow interrupted due to error: "}

Carries(message, errMessage) ==
  \E intro \in Introductions : message = intro \o errMessage

\* C24: on either backend the message of the failed event carries the
\* message of the error that stopped the run.
C24_FailedEventCarriesError ==
  \A i \in 1..Len(emitted) :
    emitted[i].event.status = "failed" =>
      /\ error # ""
      /\ Carries(emitted[i].event.message, error)

\* the same on the runs of runClaudeWorkflow
C24_OnClaude == provider = "claude" => C24_FailedEventCarriesError

----------------------------------------------------------------------------
(* A consumer that stops taking events.  The orchestrators are async       *)
(* generators: their code runs only between a next() of the consumer and   *)
(* the following yield.  The consumer has control only in the body of its  *)
(* loop, while the generator is suspended at a yield; it stops by leaving  *)
(* the loop there (or by never asking for the next item).                  *)

StopConsuming ==
  /\ callerPc = "loop"
  /\ chan # <<>>
  /\ LET step == chan[1]
     IN /\ workflowEvents' = Append(workflowEvents, step.event)
        /\ memoData' = IF step.hasData
                       THEN ApplyPartial(memoData, step.partialData)
                       ELSE memoData
  /\ chan' = <<>>
  /\ callerPc' = "stopped"
  /\ UNCHANGED <<provider, messages, isGenerating, currentMemo, workingMemo,
                 phase, pc, error, emitted, calls, outcomes, snapshots,
                 parsed, confirmation, edits, isolatedVars>>

StopNext == Next \/ StopConsuming

StopSpec == Init /\ [][StopNext]_vars

SettledCount ==
  Cardinality({i \in 1..Len(emitted) : emitted[i].event.status \in {"completed", "failed"}})

\* C25: once the consumer has stopped after some event, every event emitted
\* is one it took, the backend calls issued are those of the phases whose
\* completed or failed event it took and each of them has settled (none is
\* in flight, none of a later phase was issued), and its document is the
\* starting document with the partialData of the events it took applied.
C25_StopIsClean ==
  callerPc = "stopped" =>
    /\ chan = <<>>
    /\ Len(emitted) = Len(workflowEvents)
    /\ \A i \in 1..Len(emitted) : emitted[i].event = workflowEvents[i]
    /\ calls = [i \in 1..SettledCount |-> i]
    /\ Len(outcomes) = Len(calls)
    /\ InFlight = 0
    /\ memoData = Observable(currentMemo, emitted, Len(workflowEvents))
    /\ ~ENABLED Next

C25_Witness ==
  /\ callerPc = "stopped"
  /\ Len(workflowEvents) = 5
  /\ calls = <<1, 2>>
  /\ memoData # currentMemo

----------------------------------------------------------------------------
(* The request of phase k, built in isolation.  A prompt is the sequence of *)
(* the texts its template interpolates (the fixed instructions of the      *)
(* phase are the same in every run and are left out).  The parsed output   *)
(* of a phase is [patch, rest]: rest is the JSON text of the keys it       *)
(* carries that are not fields of the document (keyFinancials,             *)
(* competitors, ...).                                                      *)

\* JSON.stringify(x), interpolated in a template literal
JsonStringify(x) ==
  CASE x.t \in {"undefined", "absent"} -> "undefined"
    [] x.t = "null" -> "null"
    [] x.t = "string" -> "\"" \o x.v \o "\""
    [] x.t = "array" -> "[" \o x.v \o "]"
    [] OTHER -> "{" \o x.v \o "}"

\* JSON.stringify of the term sheet and of the whole document: the text of
\* each key
StringifyTermSheet(termSheet) == [f \in TSFields |-> JsonStringify(termSheet[f])]

StringifyMemo(memo) ==
  [f \in DocFields |->
     IF f = "termSheet" THEN StringifyTermSheet(memo.termSheet)
     ELSE JsonStringify(memo[f])]

\* JSON.stringify of a parsed output: the keys it carries, "" for a key it
\* does not carry
StringifyOutput(output) ==
  [top |-> [f \in TopFields |->
              IF output.patch.top[f] = Absent THEN ""
              ELSE JsonStringify(output.patch.top[f])],
   termSheet |-> IF output.patch.tsKind = "absent" THEN <<>>
                 ELSE IF output.patch.tsKind = "null" THEN <<"null">>
                 ELSE <<[f \in TSFields |->
                           IF output.patch.ts[f] = Absent THEN ""
                           ELSE JsonStringify(output.patch.ts[f])]>>,
   rest |-> output.rest]

\* the user prompt of phase k: memo is the working document, previous the
\* parsed output of phase k - 1; the templates of the two orchestrators
\* interpolate the same expressions
PhasePrompt(prov, k, request, memo, previous) ==
  CASE k = 1 -> <<request>>
    [] k = 2 -> <<StringifyOutput(previous), request>>
    [] k = 3 -> <<TemplateString(memo.companyOverview),
                  TemplateString(memo.financialAnalysis)>>
    [] k = 4 -> <<TemplateString(memo.companyOverview),
                  JsonStringify(memo.risks), JsonStringify(memo.scenarios)>>
    [] k = 5 -> <<TemplateString(memo.financialAnalysis),
                  StringifyTermSheet(memo.termSheet)>>
    [] k = 6 -> <<StringifyMemo(memo)>>

\* the attachments passed with the request of phase k
PhaseAttachments(prov, k, attachments) == IF k = 1 THEN attachments ELSE <<>>

PhaseRequest(prov, k, request, attachments, memo, previous) ==
  [prompt |-> PhasePrompt(prov, k, request, memo, previous),
   attachments |-> PhaseAttachments(prov, k, attachments)]

NoOutput == [patch |-> EmptyPatch, rest |-> ""]

\* the outputs phase k - 1 can have parsed to, with and without keys that
\* are not document fields
PreviousOutputs(k) ==
  IF k = 1 THEN {NoOutput}
  ELSE {[patch |-> P, rest |-> r] :
          P \in RunPatches(k - 1), r \in {"", "\"keyFinancials\":{\"revenue\":\"$1bn\"}"}}

\* the working document before phase k, from the one before phase k - 1
WorkingBefore(prov, k, memo, previous) ==
  IF k = 1 THEN memo ELSE WorkflowMerge(prov, k - 1, memo, previous.patch)

\* two runs with the same request, attachments and working document before
\* phase k - 1, whose phase k - 1 parsed to first and to second
PromptInit ==
  /\ IdleRun
  /\ IdleRest
  /\ IdleMerge
  /\ IdlePair
  /\ tFn = "phaseRequest"
  /\ \E prov \in Providers, k \in Phases, doc \in Docs,
        attachments \in {<<>>, <<Attachment>>} :
       \E first \in PreviousOutputs(k), second \in PreviousOutputs(k) :
         tArg = [provider |-> prov, phase |-> k, request |-> "Analyze Acme Corp",
                 attachments |-> attachments, doc |-> doc,
                 first |-> first, second |-> second]
  /\ tOut = <<>>

BuildPhaseRequests ==
  /\ tFn = "phaseRequest"
  /\ tOut = <<>>
  /\ tOut' =
       <<PhaseRequest(tArg.provider, tArg.phase, tArg.request, tArg.attachments,
                      WorkingBefore(tArg.provider, tArg.phase, tArg.doc, tArg.first),
                      tArg.first),
         PhaseRequest(tArg.provider, tArg.phase, tArg.request, tArg.attachments,
                      WorkingBefore(tArg.provider, tArg.phase, tArg.doc, tArg.second),
                      tArg.second)>>
  /\ UNCHANGED <<runVars, restVars, mergeVars, pairVars, tFn, tArg>>

PromptNext == BuildPhaseRequests

PromptSpec == PromptInit /\ [][PromptNext]_vars

SameWorkingDocument ==
  WorkingBefore(tArg.provider, tArg.phase, tArg.doc, tArg.first)
    = WorkingBefore(tArg.provider, tArg.phase, tArg.doc, tArg.second)

\* C26: for every phase N >= 2, two runs with the same request whose working
\* documents agree before phase N send the same phase N prompt, whatever
\* their earlier outputs carried that was not merged; and a request of a
\* phase other than 1 carries no attachment.
C26_PromptFromMergedDocument ==
  (tFn = "phaseRequest" /\ tOut # <<>>) =>
    /\ (tArg.phase >= 2 /\ SameWorkingDocument) => tOut[1].prompt = tOut[2].prompt
    /\ tArg.phase >= 2 => tOut[1].attachments = <<>> /\ tOut[2].attachments = <<>>
    /\ tArg.phase = 1 => tOut[1].attachments = tArg.attachments

\* the same for the phases after Financial Modeling
C26_FromPhase3 == tArg.phase # 2 => C26_PromptFromMergedDocument

----------------------------------------------------------------------------
(* One phase in isolation: what the orchestrator does with the working     *)
(* document and the settled backend call of phase k.                       *)

\* the code from the settled call of phase k to the next yield: the event
\* yielded, the working document then, and the phase whose active event
\* comes next when the generator is resumed (0: none, it returns or throws)
PhaseStep(prov, k, memo, resp) ==
  LET out == PhaseOutcome(prov, resp)
  IN IF out.kind = "ok"
     THEN [event |-> CompletedEvent(prov, k),
           working |-> WorkflowMerge(prov, k, memo, out.patch),
           patch |-> out.patch,
           next |-> IF k < 6 THEN k + 1 ELSE 0]
     ELSE [event |-> FailedEvent(prov, out.message),
           working |-> memo,
           patch |-> EmptyPatch,
           next |-> 0]

PhaseStepInit ==
  /\ IdleRun
  /\ IdleRest
  /\ IdleMerge
  /\ IdlePair
  /\ tFn = "phaseStep"
  /\ \E prov \in Providers, k \in Phases, doc \in Docs :
       \E resp \in Responses(prov, k) :
         tArg = [provider |-> prov, phase |-> k, doc |-> doc, resp |-> resp]
  /\ tOut = <<>>

SettlePhase ==
  /\ tFn = "phaseStep"
  /\ tOut = <<>>
  /\ tOut' = <<PhaseStep(tArg.provider, tArg.phase, tArg.doc, tArg.resp)>>
  /\ UNCHANGED <<runVars, restVars, mergeVars, pairVars, tFn, tArg>>

PhaseStepNext == SettlePhase

PhaseStepSpec == PhaseStepInit /\ [][PhaseStepNext]_vars

\* the call returned a response without text: on Claude a content that is no
\* list or a list without a text block, on Gemini the empty text
NoText(prov, resp) ==
  /\ ~resp.raises
  /\ IF prov = "claude"
     THEN \/ resp.content.kind # "array"
          \/ \A i \in 1..Len(resp.content.blocks) : resp.content.blocks[i].type # "text"
     ELSE resp.text = EmptyText

NoTextSettled == tFn = "phaseStep" /\ tOut # <<>> /\ NoText(tArg.provider, tArg.resp)

----------------------------------------------------------------------------
(* calculateAmortizationSchedule (src/services/lending.ts) in isolation.    *)
(* Numbers are exact fractions <<numerator, denominator>> in lowest terms   *)
(* with a positive denominator; the rounding of floating point arithmetic   *)
(* is left out.  Both callers pass a whole number of months:               *)
(* createLoanFromMemo rounds it, and the manual loan form takes it from a  *)
(* number input with min 1 and the default step.                           *)

MaxMonths == 3

RECURSIVE GCD(_, _)
GCD(a, b) == IF b = 0 THEN a ELSE GCD(b, a % b)

Abs(n) == IF n < 0 THEN -n ELSE n

Rat(n, d) ==
  LET g == GCD(Abs(n), Abs(d))
      s == IF d < 0 THEN -1 ELSE 1
  IN <<(s * n) \div g, (s * d) \div g>>

Whole(n) == <<n, 1>>

RatAdd(x, y) ==
  LET g == GCD(x[2], y[2])
  IN Rat(x[1] * (y[2] \div g) + y[1] * (x[2] \div g), (x[2] \div g) * y[2])

RatNeg(x) == <<-x[1], x[2]>>

RatSub(x, y) == RatAdd(x, RatNeg(y))

RatMul(x, y) ==
  LET a == Rat(x[1], y[2])
      b == Rat(y[1], x[2])
  IN <<a[1] * b[1], a[2] * b[2]>>

RatDiv(x, y) == RatMul(x, IF y[1] < 0 THEN <<-y[2], -y[1]>> ELSE <<y[2], y[1]>>)

RatLeq(x, y) == x[1] * y[2] <= y[1] * x[2]

RatMax(x, y) == IF RatLeq(x, y) THEN y ELSE x

RECURSIVE RatSum(_)
RatSum(xs) == IF xs = <<>> THEN Whole(0) ELSE RatAdd(Head(xs), RatSum(Tail(xs)))

\* Math.pow(x, n) for a whole n >= 0
RECURSIVE Pow(_, _)
Pow(x, n) == IF n = 0 THEN Whole(1) ELSE RatMul(x, Pow(x, n - 1))

\* the largest whole number <= months, for months >= 0
Floor(months) == months[1] \div months[2]

\* the standard amortization payment
AmortizingPmt(principal, monthlyRate, months) ==
  IF months[1] = 0 THEN Whole(0)
  ELSE IF RatLeq(monthlyRate, Whole(0))
  THEN RatDiv(principal, months)
  ELSE LET power == Pow(RatAdd(Whole(1), monthlyRate), Floor(months))
       IN IF power = Whole(1) THEN Whole(0)
          ELSE RatDiv(RatMul(principal, RatMul(monthlyRate, power)),
                      RatSub(power, Whole(1)))

ScheduleEntryBulletEveryPeriod(i, principal, monthlyRate, months, type, currentBalance) ==
  LET interestPayment == RatMul(currentBalance, monthlyRate)
      pmt == AmortizingPmt(principal, monthlyRate, months)
      principalPayment ==
        CASE type = "Amortizing" -> RatSub(pmt, interestPayment)
          [] type = "Interest Only" -> IF Whole(i) = months THEN currentBalance ELSE Whole(0)
          [] type = "Bullet" -> IF Whole(i) = months THEN principal ELSE Whole(0)
          [] OTHER -> Whole(0)
      totalPayment ==
        CASE type = "Amortizing" -> pmt
          [] type = "Interest Only" -> RatAdd(interestPayment, principalPayment)
          [] type = "Bullet" ->
               RatMul(principal, RatAdd(Whole(1), RatMul(monthlyRate, months)))
          [] OTHER -> Whole(0)
      closingBalance ==
        IF type = "Bullet" /\ ~RatLeq(months, Whole(i))
        THEN currentBalance
        ELSE RatSub(currentBalance, principalPayment)
  IN [period |-> i,
      dueMonth |-> i,
      openingBalance |-> currentBalance,
      interest |-> interestPayment,
      principal |-> principalPayment,
      totalPayment |-> totalPayment,
      closingBalance |-> RatMax(Whole(0), closingBalance),
      carried |-> closingBalance,
      status |-> "Pending"]

\* the body of the loop for period i: the entry pushed, and in carried the
\* balance the next period starts with
ScheduleEntry(i, principal, monthlyRate, months, type, currentBalance) ==
  LET interestPayment == RatMul(currentBalance, monthlyRate)
      pmt == AmortizingPmt(principal, monthlyRate, months)
      principalPayment ==
        CASE type = "Amortizing" -> RatSub(pmt, interestPayment)
          [] type = "Interest Only" -> IF Whole(i) = months THEN currentBalance ELSE Whole(0)
          [] type = "Bullet" -> IF Whole(i) = months THEN principal ELSE Whole(0)
          [] OTHER -> Whole(0)
      totalPayment ==
        CASE type = "Amortizing" -> pmt
          [] type = "Interest Only" -> RatAdd(interestPayment, principalPayment)
          [] type = "Bullet" ->
               IF Whole(i) = months
               THEN RatMul(principal, RatAdd(Whole(1), RatMul(monthlyRate, months)))
               ELSE Whole(0)
          [] OTHER -> Whole(0)
      closingBalance ==
        IF type = "Bullet" /\ ~RatLeq(months, Whole(i))
        THEN currentBalance
        ELSE RatSub(currentBalance, principalPayment)
  IN [period |-> i,
      dueMonth |-> i,
      openingBalance |-> currentBalance,
      interest |-> interestPayment,
      principal |-> principalPayment,
      totalPayment |-> totalPayment,
      closingBalance |-> RatMax(Whole(0), closingBalance),
      carried |-> closingBalance,
      status |-> "Pending"]

\* for (let i = 1; i <= months; i++)
RECURSIVE ScheduleFrom(_, _, _, _, _, _)
ScheduleFrom(i, principal, monthlyRate, months, type, currentBalance) ==
  IF ~RatLeq(Whole(i), months) THEN <<>>
  ELSE LET entry == ScheduleEntry(i, principal, monthlyRate, months, type, currentBalance)
       IN <<entry>> \o ScheduleFrom(i + 1, principal, monthlyRate, months, type,
                                     entry.carried)

calculateAmortizationSchedule(principal, annualRate, months, type) ==
  ScheduleFrom(1, principal, RatDiv(annualRate, Whole(12)), months,
               IF type = "absent" THEN "Amortizing" ELSE type, principal)

\* tenors of 0 to MaxMonths months
MonthChoices == {Whole(m) : m \in 0..MaxMonths}

LendingInit ==
  /\ IdleRun
  /\ IdleRest
  /\ IdleMerge
  /\ IdlePair
  /\ tFn = "calculateAmortizationSchedule"
  /\ tArg \in [principal : {Whole(1000), Whole(1200)},
               annualRate : {Whole(0), Rat(12, 10), Whole(3), Whole(6)},
               months : MonthChoices,
               type : {"absent", "Amortizing", "Interest Only", "Bullet"}]
  /\ tOut = <<>>

ApplySchedule ==
  /\ tFn = "calculateAmortizationSchedule"
  /\ tOut = <<>>
  /\ tOut' = <<calculateAmortizationSchedule(tArg.principal, tArg.annualRate,
                                             tArg.months, tArg.type)>>
  /\ UNCHANGED <<runVars, restVars, mergeVars, pairVars, tFn, tArg>>

LendingNext == ApplySchedule

LendingSpec == LendingInit /\ [][LendingNext]_vars

Column(schedule, field) == [i \in 1..Len(schedule) |-> schedule[i][field]]

ScheduleReturned == tFn = "calculateAmortizationSchedule" /\ tOut # <<>>

\* C28: in every schedule returned the total payments add up to the
\* principal payments plus the interest; and a Bullet schedule has principal
\* 0 and totalPayment 0 in every period but the last, whose principal is the
\* full principal and whose totalPayment is principal x (1 + monthlyRate x
\* months).
C28_ScheduleReconciles ==
  ScheduleReturned =>
    LET schedule == tOut[1]
        n == Len(schedule)
        monthlyRate == RatDiv(tArg.annualRate, Whole(12))
    IN /\ RatSum(Column(schedule, "totalPayment"))
            = RatAdd(RatSum(Column(schedule, "principal")),
                     RatSum(Column(schedule, "interest")))
       /\ (tArg.type = "Bullet" /\ n > 0) =>
            /\ \A i \in 1..(n - 1) :
                 schedule[i].principal = Whole(0) /\ schedule[i].totalPayment = Whole(0)
            /\ schedule[n].principal = tArg.principal
            /\ schedule[n].totalPayment
                 = RatMul(tArg.principal,
                          RatAdd(Whole(1), RatMul(monthlyRate, tArg.months)))

C28_Witness ==
  /\ ScheduleReturned
  /\ tArg.type = "Bullet"
  /\ tArg.months = Whole(3)
  /\ tArg.annualRate = Whole(6)
  /\ Len(tOut[1]) = 3
  /\ tOut[1][1].interest = RatMul(tArg.principal, Rat(1, 2))
  /\ tOut[1][3].totalPayment = RatMul(tArg.principal, Rat(5, 2))

----------------------------------------------------------------------------
(* The caller's document against the working document                     *)

TakenCompleted ==
  Cardinality({i \in 1..Len(workflowEvents) : workflowEvents[i].status = "completed"})

\* C29: during a run in which only the run writes the caller's document,
\* once the caller has applied the partialData of the completed event of
\* phase k its document is, field by field, the working document as it was
\* after the merge of phase k (the document the run was started with before
\* the first completed event), whatever the phases returned.
C29_CallerEqualsWorking ==
  (callerPc # "idle" /\ snapshots # <<>>) =>
    /\ TakenCompleted + 1 <= Len(snapshots)
    /\ \A f \in DocFields : memoData[f] = snapshots[TakenCompleted + 1][f]
    /\ chan = <<>> /\ pc \notin {"awaiting", "call", "start"} => memoData = workingMemo

C29_Witness ==
  /\ callerPc = "loop"
  /\ TakenCompleted = 5
  /\ parsed[4] = SchemaPatch(4)
  /\ parsed[5] = SchemaPatch(5)
  /\ memoData = workingMemo
  /\ memoData.termSheet # currentMemo.termSheet
  /\ memoData.capitalStructure # currentMemo.capitalStructure

----------------------------------------------------------------------------
(* Termination of handleSendMessage.  Once a message is submitted every    *)
(* step of the run is taken eventually: the continuations of the caller    *)
(* and of the generator are run by the event loop, and every backend call  *)
(* is assumed to return or raise.  Submitting is up to the user.           *)

Progress ==
  \/ StartPhase
  \/ Consume
  \/ IssueCall
  \/ PhaseCompletes
  \/ PhaseFails
  \/ Rethrow
  \/ Return
  \/ CatchWorkflowError
  \/ ConfirmCall
  \/ ConfirmSettles

\* the application as it is mounted: useState(INITIAL_MEMO_STATE)
LiveInit ==
  /\ Init
  /\ memoData = INITIAL_MEMO_STATE

LiveSpec == LiveInit /\ [][Next]_vars /\ WF_vars(Progress)

Replies ==
  {CriticalError(provider), FallbackConfirmation, "{}", "The six agents updated the memo."}

\* the chat is the welcome message, the user message and one model reply
OneReply ==
  /\ Len(messages) = 3
  /\ messages[2].role = "user"
  /\ messages[3].role = "model"
  /\ messages[3].content \in Replies
  /\ (HasFailed \/ confirmation = "raise") <=> messages[3].content = CriticalError(provider)
  /\ confirmation = "empty" <=> messages[3].content = FallbackConfirmation

\* C30: a submitted message leads to a state in which handleSendMessage has
\* ended with isGenerating false and one model reply after the user
\* message; until then isGenerating is true and no reply has been appended;
\* this holds whether the run succeeds, a phase fails or the confirmation
\* call fails.
C30_SubmitEndsWithOneReply ==
  /\ [](callerPc \notin {"idle", "finished"} =>
          isGenerating /\ Len(messages) = 2 /\ messages[2].role = "user")
  /\ [](callerPc = "finished" => ~isGenerating /\ OneReply)
  /\ (callerPc = "loop") ~> (callerPc = "finished")

C30_Witness ==
  /\ callerPc = "finished"
  /\ HasFailed
  /\ ~isGenerating
  /\ OneReply
  /\ Len(workflowEvents) = 8

----------------------------------------------------------------------------
(* A session: handleSubmit of the chat panel, and one run after another    *)
(* (part_001 396-403, part_000 30-99).  handleSubmit returns when the      *)
(* input is blank or isGenerating is true; otherwise handleSendMessage     *)
(* starts a run.  The history variables describe the current run: the      *)
(* start of a run clears them.                                             *)

MaxRuns == 2

MaxIgnored == 1

InputTexts == {"", " ", "Analyze Acme Corp"}

\* !inputText.trim() && attachments.length === 0, nothing being attached
IsBlank(text) == text \in {"", " "}

UserCount == Cardinality({i \in 1..Len(messages) : messages[i].role = "user"})

\* handleSubmit without its isGenerating guard
handleSubmitUnguarded ==
  \E text \in InputTexts :
    IF IsBlank(text)
    THEN /\ ignored < MaxIgnored
         /\ ignored' = ignored + 1
         /\ UNCHANGED <<runVars, mergeVars, textVars, pairVars, loanVars, clockVars>>
    ELSE /\ UserCount < MaxRuns
         /\ messages' = Append(messages, Message("user", text))
         /\ isGenerating' = TRUE
         /\ workflowEvents' = <<>>
         /\ currentMemo' = memoData
         /\ phase' = 1
         /\ pc' = "start"
         /\ callerPc' = "loop"
         /\ chan' = <<>>
         /\ error' = ""
         /\ emitted' = <<>>
         /\ calls' = <<>>
         /\ outcomes' = <<>>
         /\ snapshots' = <<>>
         /\ parsed' = <<>>
         /\ confirmation' = ""
         /\ edits' = <<>>
         /\ UNCHANGED <<provider, memoData, workingMemo, isolatedVars>>

\* handleSubmit: the submit is dropped, or handleSendMessage starts a run
handleSubmit ==
  \E text \in InputTexts :
    IF IsBlank(text) \/ isGenerating
    THEN /\ ignored < MaxIgnored
         /\ ignored' = ignored + 1
         /\ UNCHANGED <<runVars, mergeVars, textVars, pairVars, loanVars, clockVars>>
    ELSE /\ UserCount < MaxRuns
         /\ messages' = Append(messages, Message("user", text))
         /\ isGenerating' = TRUE
         /\ workflowEvents' = <<>>
         /\ currentMemo' = memoData
         /\ phase' = 1
         /\ pc' = "start"
         /\ callerPc' = "loop"
         /\ chan' = <<>>
         /\ error' = ""
         /\ emitted' = <<>>
         /\ calls' = <<>>
         /\ outcomes' = <<>>
         /\ snapshots' = <<>>
         /\ parsed' = <<>>
         /\ confirmation' = ""
         /\ edits' = <<>>
         /\ UNCHANGED <<provider, memoData, workingMemo, isolatedVars>>

\* the application as it is mounted: useState(INITIAL_MEMO_STATE)
SessionInit ==
  /\ Init
  /\ memoData = INITIAL_MEMO_STATE

\* the backends of a session answer with outputs that keep the working
\* document among Docs (a bound on the inputs: the chat and the event log do
\* not depend on what the document holds)
SessionStep == Progress /\ workingMemo' \in Docs

SessionNext == handleSubmit \/ SessionStep

SessionSpec == SessionInit /\ [][SessionNext]_vars

\* the events handed over by the generator of the current run, in order
EmittedEvents == [i \in 1..Len(emitted) |-> emitted[i].event]

ModelCount == Cardinality({i \in 1..Len(messages) : messages[i].role = "model"}) - 1

----------------------------------------------------------------------------
(* Loan servicing (src/services/lending.ts): a loan made by                 *)
(* createLoanFromMemo or createManualLoan and the operations of the loan    *)
(* detail view on it.  Each operation is a function from Loan to Loan; the  *)
(* view stores what it returns (onUpdate).  Amounts are exact fractions.    *)
(* Dates and ids are left out: nextPaymentDate is kept as the period whose  *)
(* due date it is, 0 when undefined.  The operations on the security list   *)
(* touch no other field and are left out.  Every operation can be called   *)
(* in every state, as the functions are exported; the buttons of the view   *)
(* offer disburseLoan on a Sanctioned loan, payInstallment and writeOffLoan *)
(* on a Repaying or Default loan, markLoanAsDefault on a Repaying loan and  *)
(* applyFee (the ledger tab) on every loan.                                 *)

MaxHistory == 4

MaxFees == 1

FeeAmounts == {Whole(50)}

RatLess(x, y) == ~RatLeq(y, x)

StatusChange(from, to, reason) == [from |-> from, to |-> to, reason |-> reason]

LedgerEntry(kind, description, debit, credit, balance) ==
  [kind |-> kind, description |-> description,
   debit |-> debit, credit |-> credit, balance |-> balance]

\* the Loan both constructors return
NewLoan(reason, principal, rate, months, type) ==
  [status |-> "Sanctioned",
   statusHistory |-> <<StatusChange("null", "Sanctioned", reason)>>,
   principalAmount |-> principal,
   interestRate |-> rate,
   tenorMonths |-> months,
   repaymentType |-> type,
   schedule |-> calculateAmortizationSchedule(principal, rate, months, type),
   ledger |-> <<>>,
   totalInterestAccrued |-> Whole(0),
   totalPrincipalRepaid |-> Whole(0),
   outstandingBalance |-> principal,
   nextPaymentDate |-> 0]

\* months is Math.round(years * 12): a whole number, 0 for a tenor of a few days
createLoanFromMemo(principal, rate, months, type) ==
  NewLoan("Loan origination from Investment Memo", principal, rate, months, type)

createManualLoan(input) ==
  NewLoan("Manual loan origination", input.amount, input.interestRate,
          input.tenorMonths, input.repaymentType)

\* newSchedule[i]?.dueDate
DueDate(schedule, i) == IF i \in 1..Len(schedule) THEN schedule[i].dueMonth ELSE 0

disburseLoan(l) ==
  IF l.status # "Sanctioned" THEN l
  ELSE LET newSchedule == calculateAmortizationSchedule(l.principalAmount, l.interestRate,
                                                        l.tenorMonths, l.repaymentType)
           disbursementEntry == LedgerEntry("txn", "Loan Disbursement", l.principalAmount,
                                            Whole(0), l.principalAmount)
           historyEntry == StatusChange(l.status, "Repaying", "Disbursement executed")
       IN [l EXCEPT !.status = "Repaying",
                    !.statusHistory = Append(l.statusHistory, historyEntry),
                    !.schedule = newSchedule,
                    !.ledger = <<disbursementEntry>>,
                    !.nextPaymentDate = DueDate(newSchedule, 1)]

\* findLastIndex in place of findIndex
NextInstallmentIndexFromEnd(schedule) ==
  LET open == {i \in 1..Len(schedule) : schedule[i].status \in {"Pending", "Overdue"}}
  IN IF open = {} THEN 0 ELSE CHOOSE i \in open : \A j \in open : j <= i

\* schedule.findIndex(s => s.status === 'Pending' || s.status === 'Overdue'), 0 for -1
NextInstallmentIndex(schedule) ==
  LET open == {i \in 1..Len(schedule) : schedule[i].status \in {"Pending", "Overdue"}}
  IN IF open = {} THEN 0 ELSE CHOOSE i \in open : \A j \in open : i <= j

\* the whole payment taken off the balance, not its principal part
NewOutstandingLessPayment(l, installment) ==
  RatMax(Whole(0), RatSub(l.outstandingBalance, installment.totalPayment))

\* Math.max(0, loan.outstandingBalance - installment.principal)
NewOutstanding(l, installment) ==
  RatMax(Whole(0), RatSub(l.outstandingBalance, installment.principal))

payInstallment(l) ==
  IF l.status # "Repaying" /\ l.status # "Default" THEN l
  ELSE LET nextInstallmentIndex == NextInstallmentIndex(l.schedule)
       IN IF nextInstallmentIndex = 0 THEN l
          ELSE LET installment == l.schedule[nextInstallmentIndex]
                   interestEntry ==
                     LedgerEntry("int", <<"Interest Accrual - Period #", installment.period>>,
                                 installment.interest, Whole(0),
                                 RatAdd(l.outstandingBalance, installment.interest))
                   repaymentEntry ==
                     LedgerEntry("pay", <<"Repayment - Installment #", installment.period>>,
                                 Whole(0), installment.totalPayment,
                                 RatSub(RatAdd(l.outstandingBalance, installment.interest),
                                        installment.totalPayment))
                   newSchedule ==
                     [l.schedule EXCEPT ![nextInstallmentIndex].status = "Paid"]
                   newPrincipalRepaid == RatAdd(l.totalPrincipalRepaid, installment.principal)
                   newInterestAccrued == RatAdd(l.totalInterestAccrued, installment.interest)
                   newOutstanding == NewOutstanding(l, installment)
                   isClosed ==
                     \/ RatLess(newOutstanding, Rat(1, 100))
                     \/ /\ nextInstallmentIndex = Len(newSchedule)
                        /\ RatLess(newOutstanding, Whole(1))
                   newHistory ==
                     IF isClosed
                     THEN Append(l.statusHistory,
                                 StatusChange(l.status, "Closed", "Loan fully repaid"))
                     ELSE l.statusHistory
               IN [l EXCEPT !.schedule = newSchedule,
                            !.ledger = <<repaymentEntry, interestEntry>> \o l.ledger,
                            !.totalPrincipalRepaid = newPrincipalRepaid,
                            !.totalInterestAccrued = newInterestAccrued,
                            !.outstandingBalance = newOutstanding,
                            !.status = IF isClosed THEN "Closed" ELSE l.status,
                            !.statusHistory = newHistory,
                            !.nextPaymentDate =
                               IF isClosed THEN 0
                               ELSE DueDate(newSchedule, nextInstallmentIndex + 1)]

markLoanAsDefaultUnlogged(l, reason) == [l EXCEPT !.status = "Default"]

markLoanAsDefault(l, reason) ==
  [l EXCEPT !.status = "Default",
            !.statusHistory = Append(l.statusHistory,
                                     StatusChange(l.status, "Default", reason))]

\* writeOffLoan without its early return
writeOffLoanUnguarded(l) ==
  LET amount == l.outstandingBalance
      writeOffEntry == LedgerEntry("wo", "Write-off (Bad Debt)", Whole(0), amount,
                                   Whole(0))
      statusEntry == StatusChange(l.status, "Closed", "Written Off")
  IN [l EXCEPT !.status = "Closed",
               !.outstandingBalance = Whole(0),
               !.ledger = <<writeOffEntry>> \o l.ledger,
               !.statusHistory = Append(l.statusHistory, statusEntry),
               !.nextPaymentDate = 0]

writeOffLoan(l) ==
  IF l.status = "Closed" \/ RatLess(l.outstandingBalance, Rat(1, 100)) THEN l
  ELSE LET amount == l.outstandingBalance
           writeOffEntry == LedgerEntry("wo", "Write-off (Bad Debt)", Whole(0), amount,
                                        Whole(0))
           statusEntry == StatusChange(l.status, "Closed", "Written Off")
       IN [l EXCEPT !.status = "Closed",
                    !.outstandingBalance = Whole(0),
                    !.ledger = <<writeOffEntry>> \o l.ledger,
                    !.statusHistory = Append(l.statusHistory, statusEntry),
                    !.nextPaymentDate = 0]

applyFee(l, description, amount) ==
  LET feeEntry == LedgerEntry("fee", description, amount, Whole(0),
                              RatAdd(l.outstandingBalance, amount))
  IN [l EXCEPT !.ledger = <<feeEntry>> \o l.ledger,
               !.outstandingBalance = RatAdd(l.outstandingBalance, amount)]

RepaymentTypes == {"Amortizing", "Interest Only", "Bullet"}

\* loans booked from a memo: a tenor that rounds to 0 months, and one month;
\* manual loans: 1 to MaxMonths months (the form asks for 1 or more)
LoanChoices ==
  {createLoanFromMemo(Whole(1000), rate, Whole(m), type) :
     rate \in {Whole(0), Rat(12, 10)}, m \in 0..1, type \in RepaymentTypes}
  \cup
  {createManualLoan([amount |-> Whole(1000), interestRate |-> rate,
                     tenorMonths |-> Whole(m), repaymentType |-> type]) :
     rate \in {Whole(0), Rat(12, 10)}, m \in 1..MaxMonths, type \in RepaymentTypes}

\* handleBookLoan, handleCreateLoan: the loan as it is put in bookedLoans
LoanInit ==
  /\ IdleRun
  /\ IdleMerge
  /\ IdleText
  /\ IdlePair
  /\ IdleClock
  /\ ignored = 0
  /\ loan \in LoanChoices
  /\ prior = loan
  /\ lastOp = "create"
  /\ applied = {}

\* an operation of the detail view: onUpdate(operation(loan))
Operate(name, updated) ==
  /\ loan' = updated
  /\ prior' = loan
  /\ lastOp' = name
  /\ applied' = IF updated # loan THEN applied \cup {name} ELSE applied
  /\ UNCHANGED <<runVars, mergeVars, textVars, pairVars, ignored, clockVars>>

handleDisburse == Operate("disburseLoan", disburseLoan(loan))

handlePayment == Operate("payInstallment", payInstallment(loan))

handleDefault ==
  /\ Len(loan.statusHistory) < MaxHistory
  /\ Operate("markLoanAsDefault", markLoanAsDefault(loan, "Missed Payment"))

handleWriteOff == Operate("writeOffLoan", writeOffLoan(loan))

FeeCount(ledger) == Cardinality({i \in 1..Len(ledger) : ledger[i].kind = "fee"})

handleAddFee ==
  /\ FeeCount(loan.ledger) < MaxFees
  /\ \E amount \in FeeAmounts :
       Operate("applyFee", applyFee(loan, "Late Payment Fee", amount))

LoanNext ==
  \/ handleDisburse
  \/ handlePayment
  \/ handleDefault
  \/ handleWriteOff
  \/ handleAddFee

LoanSpec == LoanInit /\ [][LoanNext]_vars

----------------------------------------------------------------------------
(* Properties of the loan operations                                       *)

\* the last operation was called on the loan prior and gave the loan back
\* changed
Effective(name) == lastOp = name /\ loan # prior

\* C32: an operation called on a loan whose status is Closed leaves its
\* status Closed and its outstandingBalance as it was.
C32_ClosedIsFinal ==
  (lastOp # "create" /\ prior.status = "Closed") =>
    /\ loan.status = "Closed"
    /\ loan.outstandingBalance = prior.outstandingBalance

\* the three guarded operations do leave a Closed loan as it is
C32_GuardedOperations ==
  (lastOp \in {"disburseLoan", "payInstallment", "writeOffLoan"}
     /\ prior.status = "Closed") => loan = prior

\* C33: the status history of a loan is never empty, its first entry has
\* from null, every later entry starts from the status the entry before it
\* led to, and its last entry leads to the loan's status.
C33_HistoryChain ==
  LET history == loan.statusHistory
  IN /\ history # <<>>
     /\ history[1].from = "null"
     /\ \A i \in 2..Len(history) : history[i].from = history[i - 1].to
     /\ history[Len(history)].to = loan.status

C33_Witness ==
  /\ Len(loan.statusHistory) = 4
  /\ loan.statusHistory[3].to = "Default"
  /\ loan.statusHistory[4].reason = "Loan fully repaid"
  /\ loan.status = "Closed"

WritesLedger == {"disburseLoan", "payInstallment", "applyFee", "writeOffLoan"}

\* C34: after an operation that wrote the ledger, the balance of the newest
\* ledger entry is the loan's outstandingBalance, whatever the repayment
\* type.
C34_LedgerBalance ==
  (lastOp \in WritesLedger /\ loan # prior) =>
    loan.ledger[1].balance = loan.outstandingBalance

\* the installment the last payInstallment paid
PaidInstallment == prior.schedule[NextInstallmentIndex(prior.schedule)]

\* it is when no fee was applied before the disbursement, when the
\* installment paid is not one of a Bullet loan with interest, and when the
\* principal paid is not more than the balance
C34_LedgerBalanceOtherwise ==
  (lastOp \in WritesLedger /\ loan # prior
     /\ (lastOp = "disburseLoan" => prior.outstandingBalance = prior.principalAmount)
     /\ (lastOp = "payInstallment" =>
           /\ loan.repaymentType # "Bullet" \/ loan.interestRate = Whole(0)
           /\ RatLeq(PaidInstallment.principal, prior.outstandingBalance))) =>
    loan.ledger[1].balance = loan.outstandingBalance

AllPaid(schedule) == \A i \in 1..Len(schedule) : schedule[i].status = "Paid"

PaidCount(schedule) == Cardinality({i \in 1..Len(schedule) : schedule[i].status = "Paid"})

\* C35: whenever every installment of a non-empty schedule is Paid the loan
\* is Closed with outstandingBalance 0, fees or no fees.
C35_AllPaidIsClosed ==
  (loan.schedule # <<>> /\ AllPaid(loan.schedule)) =>
    /\ loan.status = "Closed"
    /\ loan.outstandingBalance = Whole(0)

\* the payment of the last installment does close a loan that took no fee
C35_AllPaidIsClosedWithoutFee ==
  (Effective("payInstallment") /\ AllPaid(loan.schedule) /\ "applyFee" \notin applied) =>
    /\ loan.status = "Closed"
    /\ loan.outstandingBalance = Whole(0)

\* C36: the Paid installments are always the first ones of the schedule;
\* an effective payInstallment marks the first installment that was not
\* Paid, leaves every other installment as it was, and puts two entries on
\* top of the ledger as it was: the repayment, and under it the interest
\* accrual, both of the period paid.
C36_PaidInPeriodOrder ==
  /\ \A i \in 1..Len(loan.schedule) :
       loan.schedule[i].status = "Paid" <=> i <= PaidCount(loan.schedule)
  /\ Effective("payInstallment") =>
       LET k == PaidCount(prior.schedule) + 1
       IN /\ k <= Len(prior.schedule)
          /\ loan.schedule = [prior.schedule EXCEPT ![k].status = "Paid"]
          /\ loan.schedule[k].period = k
          /\ Len(loan.ledger) = Len(prior.ledger) + 2
          /\ SubSeq(loan.ledger, 3, Len(loan.ledger)) = prior.ledger
          /\ loan.ledger[1].kind = "pay"
          /\ loan.ledger[1].description = <<"Repayment - Installment #", k>>
          /\ loan.ledger[1].credit = prior.schedule[k].totalPayment
          /\ loan.ledger[2].kind = "int"
          /\ loan.ledger[2].description = <<"Interest Accrual - Period #", k>>
          /\ loan.ledger[2].debit = prior.schedule[k].interest

C36_Witness ==
  /\ Effective("payInstallment")
  /\ PaidCount(loan.schedule) = 2
  /\ Len(loan.schedule) = 3
  /\ loan.status = "Default"
  /\ Len(loan.ledger) = 6
  /\ loan.ledger[3].kind = "fee"

\* a loan that was disbursed and took neither a fee nor a write-off
PaymentsOnly ==
  /\ "disburseLoan" \in applied
  /\ "applyFee" \notin applied
  /\ "writeOffLoan" \notin applied

\* C37: on a disbursed loan that took no fee and no write-off, whatever
\* number of installments was paid, the principal repaid and the outstanding
\* balance add up to the principal amount, and the balance is not negative
\* (amounts being exact fractions, for the three repayment types).
C37_PrincipalConserved ==
  PaymentsOnly =>
    /\ RatAdd(loan.totalPrincipalRepaid, loan.outstandingBalance) = loan.principalAmount
    /\ RatLeq(Whole(0), loan.outstandingBalance)

C37_Witness ==
  /\ PaymentsOnly
  /\ Effective("payInstallment")
  /\ loan.repaymentType = "Interest Only"
  /\ loan.interestRate = Rat(12, 10)
  /\ PaidCount(loan.schedule) = 3
  /\ loan.totalPrincipalRepaid = Whole(1000)
  /\ loan.totalInterestAccrued = Whole(300)
  /\ loan.outstandingBalance = Whole(0)

NothingDue(schedule) ==
  \A i \in 1..Len(schedule) : schedule[i].status \notin {"Pending", "Overdue"}

\* C38: disburseLoan called on a loan that is not Sanctioned, payInstallment
\* called on a loan that is neither Repaying nor Default or has no
\* installment Pending or Overdue, and writeOffLoan called on a loan that is
\* Closed or owes less than 0.01 give the loan back as it was; disburseLoan
\* called on a Sanctioned loan gives it back Repaying, with a ledger of one
\* entry, the disbursement of the principal amount.
C38_NotApplicableIsNoOp ==
  /\ (lastOp = "disburseLoan" /\ prior.status # "Sanctioned") => loan = prior
  /\ (lastOp = "payInstallment"
        /\ (prior.status \notin {"Repaying", "Default"} \/ NothingDue(prior.schedule)))
       => loan = prior
  /\ (lastOp = "writeOffLoan"
        /\ (prior.status = "Closed" \/ RatLess(prior.outstandingBalance, Rat(1, 100))))
       => loan = prior
  /\ (lastOp = "disburseLoan" /\ prior.status = "Sanctioned") =>
       /\ loan.status = "Repaying"
       /\ Len(loan.ledger) = 1
       /\ loan.ledger[1].description = "Loan Disbursement"
       /\ loan.ledger[1].debit = prior.principalAmount
       /\ loan.ledger[1].balance = prior.principalAmount

C38_Witness ==
  /\ lastOp = "payInstallment"
  /\ prior.status = "Repaying"
  /\ prior.schedule # <<>>
  /\ NothingDue(prior.schedule)
  /\ loan = prior

----------------------------------------------------------------------------
(* The ids and timestamps of the events of one run (createEvent,            *)
(* src/services/claude.ts 151-161 and 423-433).  runId is Date.now() read   *)
(* when the generator starts; createEvent reads Date.now() once for the id  *)
(* and once more for the timestamp.  The clock is a count of milliseconds   *)
(* that never goes back and may stand still between two reads, also across  *)
(* the await of a backend call.  An id, a template string of three parts,   *)
(* is kept as the triple of its parts.                                      *)

MaxClock == 2

\* createEvent with its id and timestamp, Date.now() read at idTime and stampTime
createStampedEvent(runId, agent, status, message, idTime, stampTime) ==
  [id |-> <<runId, agent, idTime>>,
   agent |-> agent,
   status |-> status,
   message |-> message,
   timestamp |-> stampTime]

Stamp(event, idTime, stampTime) ==
  createStampedEvent(stamping.runId, event.agent, event.status, event.message,
                     idTime, stampTime)

\* the times of the two reads of one createEvent
Reads == {r \in (now..MaxClock) \X (now..MaxClock) : r[1] <= r[2]}

\* the generator starts: const runId = Date.now().toString()
StampInit ==
  /\ IdleRun
  /\ IdleMerge
  /\ IdleText
  /\ IdlePair
  /\ IdleLoan
  /\ ignored = 0
  /\ now = 0
  /\ stamping \in {[provider |-> prov, runId |-> 0, phase |-> 1, pc |-> "start"] :
                     prov \in Providers}
  /\ stamped = <<>>

Emit(event, nextPhase, nextPc) ==
  \E r \in Reads :
    /\ stamped' = Append(stamped, Stamp(event, r[1], r[2]))
    /\ now' = r[2]
    /\ stamping' = [stamping EXCEPT !.phase = nextPhase, !.pc = nextPc]
    /\ UNCHANGED <<runVars, mergeVars, textVars, pairVars, ignored, loanVars>>

\* a millisecond passes while the generator is suspended
Tick ==
  /\ now < MaxClock
  /\ stamping.pc # "done"
  /\ now' = now + 1
  /\ UNCHANGED <<runVars, mergeVars, textVars, pairVars, ignored, loanVars,
                 stamping, stamped>>

EmitActive ==
  /\ stamping.pc = "start"
  /\ Emit(ActiveEvent(stamping.provider, stamping.phase), stamping.phase, "awaiting")

EmitCompleted ==
  /\ stamping.pc = "awaiting"
  /\ Emit(CompletedEvent(stamping.provider, stamping.phase),
          IF stamping.phase < 6 THEN stamping.phase + 1 ELSE stamping.phase,
          IF stamping.phase < 6 THEN "start" ELSE "done")

EmitFailed ==
  /\ stamping.pc = "awaiting"
  /\ Emit(FailedEvent(stamping.provider, "Network Error"), stamping.phase, "done")

StampNext ==
  \/ Tick
  \/ EmitActive
  \/ EmitCompleted
  \/ EmitFailed

StampSpec == StampInit /\ [][StampNext]_vars

\* C39: the events of a run have pairwise distinct ids, also the active and
\* the completed event of a phase between which the clock stood still, and
\* their timestamps never go down in emission order.
C39_DistinctIds ==
  /\ \A i, j \in 1..Len(stamped) : i < j => stamped[i].id # stamped[j].id
  /\ \A i, j \in 1..Len(stamped) : i < j => stamped[i].timestamp <= stamped[j].timestamp

\* two events of a run share an id only if they are of the same agent and
\* built in the same millisecond; the timestamps never go down
C39_DistinctIdsAcrossAgentsAndTime ==
  /\ \A i, j \in 1..Len(stamped) :
       (i < j /\ stamped[i].id = stamped[j].id) =>
         /\ stamped[i].agent = stamped[j].agent
         /\ stamped[i].id[3] = stamped[j].id[3]
         /\ j = i + 1
         /\ stamped[i].status = "active"
         /\ stamped[j].status = "completed"
  /\ \A i, j \in 1..Len(stamped) : i < j => stamped[i].timestamp <= stamped[j].timestamp

====
